---- MODULE Spec2Model ----
(***************************************************************************)
(* ormox: a driver-agnostic document-database access layer.                *)
(*                                                                         *)
(* The module models the Client / Collection engine of crates/ormox_core,  *)
(* the Document capability, the process-wide global Client (ORMOX) and the *)
(* PoloDB driver of crates/drivers/ormox_driver_polodb, over an abstract   *)
(* document store (one ordered list of wire documents per driver).         *)
(* MongoDriver (crates/drivers/ormox_driver_mongodb) makes the same calls  *)
(* in the same order on its backend.  Further specifications cover index   *)
(* management (SpecIndex), concurrent saves (SpecSave) and the Query       *)
(* builder of core/query.rs (SpecQuery).                                   *)
(*                                                                         *)
(* The document type is the one of ormox_test/src/main.rs:                 *)
(*   #[ormox_document(collection = "test", id_field = "id",                *)
(*                    id_alias = "_id")] struct User { name, age, .. }     *)
(* so the identifier is serialized under "_id", the backend's primary key. *)
(***************************************************************************)
EXTENDS Integers, Sequences, FiniteSets, TLC

VARIABLES
    ORMOX,      \* the global OnceLock<Arc<Client>>: {} (unset) or {client}
    store,      \* store[c]: the stored wire documents of client c's driver, in storage order
    last,       \* the call whose result the caller holds (op "idle" when it holds none):
                \* its operation, arguments, the stores before it, its result and the
                \* driver methods it invoked.  last.in holds the documents handed to
                \* the call as the caller holds them afterwards: Document::save takes
                \* &self and Collection::save a value, neither writes a field of it
    pc,         \* pc[t]: position of thread t inside Client::create_global
    ret,        \* ret[t]: what create_global returned to thread t ({} until it returns)
    seen,       \* the values Client::global() returned to readers, in order
    indexes,    \* indexes[c]: the indexes the collection of client c's driver holds
    saves,      \* saves[t]: the Collection::save call of the concurrent task t: its
                \* position, the client and document it was called with, its result
    builder,    \* a Query under construction: builder.q is the Query, builder.log the
                \* builder calls made on it since Query::new(), in order
    parser,     \* the wire filter handed to Query::try_from, its result and the
                \* wire document the parsed Query was converted back to
    built,      \* what the caller of Query::build holds: built.q the Query returned
                \* by build() on the builder, built.child a second Query the caller
                \* keeps building and passes into the builder by reference,
                \* built.calls the number of calls made on the child; built.at and
                \* built.childAt the numbers of calls made on the builder and on
                \* the child before build()
    declared,   \* an Index under construction: declared.index is the Index,
                \* declared.log the fields it was declared with, in order
    simple      \* a SimpleQuery under construction: simple.s is the SimpleQuery,
                \* simple.log the calls made on it since SimpleQuery::new(),
                \* simple.back what SimpleQuery -> Query -> SimpleQuery returned

vars == <<ORMOX, store, last, pc, ret, seen, indexes, saves, builder, parser, built, declared,
          simple>>

(***************************************************************************)
(* Bounds                                                                  *)
(***************************************************************************)
NumThreads == 3     \* concurrent callers of Client::create_global
MaxSeen == 2        \* reads of Client::global() that are recorded
MaxWrites == 3      \* builder calls made on one Query
MaxFields == 4      \* fields one Index is declared with, repetitions included

Threads == 1..NumThreads    \* thread t creates the client t from its own driver
Savers == {1, 2}            \* the tasks that call Collection::save concurrently
Clients == {1, 2}           \* the clients (each owning its own driver) the engine calls use

Uuids == {1, 2}
Names == {"Ada", "Bob"}
Ages == {30}

(***************************************************************************)
(* Option<T> is a set with at most one element.                            *)
(***************************************************************************)
None == {}
Some(x) == {x}
Unwrap(o) == CHOOSE x \in o : TRUE

(***************************************************************************)
(* Uuid <-> string.  Uuid::to_string() is the hyphenated form; under       *)
(* bson::to_document (human readable) a Uuid field serializes to the same  *)
(* hyphenated string.                                                      *)
(***************************************************************************)
UuidStrings ==
    << "00000000-0000-4000-8000-000000000001",
       "00000000-0000-4000-8000-000000000002",
       "00000000-0000-4000-8000-000000000003" >>

UuidToString(u) == UuidStrings[u]

IsUuidString(s) == \E u \in DOMAIN UuidStrings : UuidStrings[u] = s

UuidParse(s) == CHOOSE u \in DOMAIN UuidStrings : UuidStrings[u] = s

(***************************************************************************)
(* Wire (bson) values: tagged scalars.                                     *)
(***************************************************************************)
BString(s) == [t |-> "String", v |-> s]
BInt(i) == [t |-> "Int", v |-> i]

BArray(s) == [t |-> "Array", v |-> s]

BsonEq(a, b) == a.t = b.t /\ a.v = b.v

(***************************************************************************)
(* Query: HashMap<QueryKey, QueryValue>, a function from keys to values.   *)
(***************************************************************************)
KeyString(s) == [k |-> "String", s |-> s]

KeyOperator(s) == [k |-> "Operator", s |-> s]

\* the built-in keys: GreaterThan, LessThan, ..., And, Or, Not
Key(kind) == [k |-> kind, s |-> ""]

QValue(v) == [q |-> "Value", v |-> v]

QCasematch(queries) == [q |-> "Casematch", v |-> queries]

QMapping(query) == [q |-> "Mapping", v |-> query]

Query_new == << >>

\* a push that keeps the value already held under the key
Query_push_keep_first(q, key, value) ==
    [x \in (DOMAIN q) \cup {key} |-> IF x \in DOMAIN q THEN q[x] ELSE value]

\* HashMap::insert: the value under an existing key is replaced
Query_push(q, key, value) ==
    [x \in (DOMAIN q) \cup {key} |-> IF x = key THEN value ELSE q[x]]

Query_field(q, key, value) == Query_push(q, KeyString(key), QValue(value))

Query_subquery(q, key, child) == Query_push(q, KeyString(key), QMapping(child))

Query_operation(q, operation, value) == Query_push(q, KeyOperator(operation), value)

Query_greater_than(q, value) == Query_push(q, Key("GreaterThan"), QValue(BInt(value)))

Query_greater_than_equal(q, value) == Query_push(q, Key("GreaterThanEqual"), QValue(BInt(value)))

Query_less_than(q, value) == Query_push(q, Key("LessThan"), QValue(BInt(value)))

Query_less_than_equal(q, value) == Query_push(q, Key("LessThanEqual"), QValue(BInt(value)))

Query_equals(q, value) == Query_push(q, Key("Equals"), QValue(value))

Query_not_equals(q, value) == Query_push(q, Key("NotEquals"), QValue(value))

Query_in_array(q, value) == Query_push(q, Key("In"), QValue(BArray(value)))

Query_not_in_array(q, value) == Query_push(q, Key("NotIn"), QValue(BArray(value)))

Query_not(q, value) == Query_push(q, Key("Not"), QMapping(value))

Query_and(q, cases) == Query_push(q, Key("And"), QCasematch(cases))

\* an or that appends its cases to the cases already held under the key
Query_or_appending(q, cases) ==
    Query_push(q, Key("Or"),
               QCasematch((IF Key("Or") \in DOMAIN q /\ q[Key("Or")].q = "Casematch"
                           THEN q[Key("Or")].v ELSE << >>) \o cases))

Query_or(q, cases) == Query_push(q, Key("Or"), QCasematch(cases))

\* a caller-supplied value that is no Query and whose TryInto<Query> returns an
\* error, written as a map holding the one key NotAQuery
NotAQuery == Query_push(Query_new, Key("NotAQuery"), QValue(BString("")))

\* query.try_into() succeeds
Query_compatible(query) == query # NotAQuery

\* a build that copies the scalar entries only
Query_build_shallow(q) == [key \in {k \in DOMAIN q : q[k].q = "Value"} |-> q[key]]

Query_build(q) == q

QueryKey_to_string(key) ==
    CASE key.k = "String" -> key.s
      [] key.k = "Operator" -> key.s
      [] key.k = "GreaterThan" -> "$gt"
      [] key.k = "LessThan" -> "$lt"
      [] key.k = "GreaterThanEqual" -> "$gte"
      [] key.k = "LessThanEqual" -> "$lte"
      [] key.k = "Equals" -> "$eq"
      [] key.k = "NotEquals" -> "$ne"
      [] key.k = "In" -> "$in"
      [] key.k = "NotIn" -> "$nin"
      [] key.k = "And" -> "$and"
      [] key.k = "Or" -> "$or"
      [] key.k = "Not" -> "$not"

(***************************************************************************)
(* Query <-> wire document (core/query.rs).  A wire document is a function *)
(* from key strings to wire values.  The values a Query holds are          *)
(* serde_json values, written with the same tags; a serde_json Number is   *)
(* written as BInt: its integers in the i32 range, the only ones used      *)
(* here, are the ones Bson::try_from turns into Bson::Int32.               *)
(***************************************************************************)
BLong(i) == [t |-> "Long", v |-> i]

BDocument(d) == [t |-> "Document", v |-> d]

\* serde_json::to_value(&Bson): Int32 and Int64 both become a Number
RECURSIVE to_value(_)
to_value(b) ==
    CASE b.t = "Long" -> BInt(b.v)
      [] b.t = "Array" -> BArray([i \in DOMAIN b.v |-> to_value(b.v[i])])
      [] b.t = "Document" -> BDocument([n \in DOMAIN b.v |-> to_value(b.v[n])])
      [] OTHER -> b

\* Bson::try_from(serde_json::Value)
RECURSIVE Bson_try_from(_)
Bson_try_from(v) ==
    CASE v.t = "Array" -> BArray([i \in DOMAIN v.v |-> Bson_try_from(v.v[i])])
      [] v.t = "Document" -> BDocument([n \in DOMAIN v.v |-> Bson_try_from(v.v[n])])
      [] OTHER -> v

\* TryInto<bson::Document> for Query: every key is written under its string
\* form.  No Query built in this module holds two keys of one string form.
RECURSIVE Query_try_into(_)
Query_try_into(q) ==
    LET names == {QueryKey_to_string(key) : key \in DOMAIN q}
        keyOf(n) == CHOOSE key \in DOMAIN q : QueryKey_to_string(key) = n
        conv(value) ==
            CASE value.q = "Value" -> [ok |-> TRUE, v |-> Bson_try_from(value.v)]
              [] value.q = "Casematch" ->
                    LET cases == [i \in DOMAIN value.v |-> Query_try_into(value.v[i])]
                    IN  [ok |-> \A i \in DOMAIN cases : cases[i].ok,
                         v |-> BArray([i \in DOMAIN cases |-> BDocument(cases[i].doc)])]
              [] value.q = "Mapping" ->
                    LET nested == Query_try_into(value.v)
                    IN  [ok |-> nested.ok, v |-> BDocument(nested.doc)]
        entries == [n \in names |-> conv(q[keyOf(n)])]
    IN  [ok |-> \A n \in names : entries[n].ok,
         doc |-> [n \in names |-> entries[n].v]]

\* the canonical tokens of the built-in operators
OperatorTokens ==
    {"$gt", "$lt", "$gte", "$lte", "$eq", "$ne", "$in", "$nin", "$and", "$or", "$not"}

\* key.starts_with("$"), over the key strings used in this module
starts_with_sigil(key) == key \in OperatorTokens \cup {"$regex", "$nor"}

bson_value(input) == [res |-> "Ok", v |-> to_value(input)]

bson_value_array(input) ==
    LET value == to_value(input)
    IN  IF value.t = "Array" THEN [res |-> "Ok", v |-> value.v]
        ELSE [res |-> "Deserialization", v |-> << >>]

bson_number(input) ==
    LET value == to_value(input)
    IN  IF value.t = "Int" THEN [res |-> "Ok", v |-> value.v]
        ELSE [res |-> "Deserialization", v |-> 0]

RECURSIVE Query_try_from(_)

bson_query(input) ==
    IF input.t = "Document" THEN Query_try_from(input.v)
    ELSE [res |-> "Deserialization", q |-> Query_new]

bson_query_array(input) ==
    IF input.t # "Array" THEN [res |-> "Deserialization", v |-> << >>]
    ELSE LET items == [i \in DOMAIN input.v |-> bson_query(input.v[i])]
         IN  IF \E i \in DOMAIN items : items[i].res # "Ok"
             THEN [res |-> "Deserialization", v |-> << >>]
             ELSE [res |-> "Ok", v |-> [i \in DOMAIN items |-> items[i].q]]

\* one iteration of the loop of try_from: the entry (key, value) of the wire
\* document is added to result
Query_try_from_entry(result, key, value) ==
    LET Ok(q) == [res |-> "Ok", q |-> q]
        Err == [res |-> "Deserialization", q |-> Query_new]
        number == bson_number(value)
        array == bson_value_array(value)
        query == bson_query(value)
        queries == bson_query_array(value)
    IN  IF starts_with_sigil(key)
        THEN CASE key = "$gt" ->
                    IF number.res = "Ok" THEN Ok(Query_greater_than(result, number.v)) ELSE Err
               [] key = "$lt" ->
                    IF number.res = "Ok" THEN Ok(Query_less_than(result, number.v)) ELSE Err
               [] key = "$gte" ->
                    IF number.res = "Ok" THEN Ok(Query_greater_than_equal(result, number.v)) ELSE Err
               [] key = "$lte" ->
                    IF number.res = "Ok" THEN Ok(Query_less_than_equal(result, number.v)) ELSE Err
               [] key = "$eq" -> Ok(Query_equals(result, bson_value(value).v))
               [] key = "$ne" -> Ok(Query_not_equals(result, bson_value(value).v))
               [] key = "$in" ->
                    IF array.res = "Ok" THEN Ok(Query_in_array(result, array.v)) ELSE Err
               [] key = "$nin" ->
                    IF array.res = "Ok" THEN Ok(Query_not_in_array(result, array.v)) ELSE Err
               [] key = "$not" ->
                    IF query.res = "Ok" THEN Ok(Query_not(result, query.q)) ELSE Err
               [] key = "$and" ->
                    IF queries.res = "Ok" THEN Ok(Query_and(result, queries.v)) ELSE Err
               [] key = "$or" ->
                    IF queries.res = "Ok" THEN Ok(Query_or(result, queries.v)) ELSE Err
               [] OTHER ->
                    IF value.t = "Document"
                    THEN IF query.res = "Ok"
                         THEN Ok(Query_operation(result, key, QMapping(query.q))) ELSE Err
                    ELSE IF queries.res = "Ok"
                         THEN Ok(Query_operation(result, key, QCasematch(queries.v)))
                         ELSE Ok(Query_operation(result, key, QValue(bson_value(value).v)))
        ELSE IF value.t = "Document"
             THEN IF query.res = "Ok" THEN Ok(Query_subquery(result, key, query.q)) ELSE Err
             ELSE Ok(Query_field(result, key, bson_value(value).v))

\* a loop that visits one entry of the wire document and drops the others
Query_try_from_first_entry(value, keys, result) ==
    IF keys = {} THEN [res |-> "Ok", q |-> result]
    ELSE LET key == CHOOSE k \in keys : TRUE
         IN  Query_try_from_entry(result, key, value[key])

\* the loop of try_from over the entries not yet visited: the first failure returns
RECURSIVE Query_try_from_loop(_, _, _)
Query_try_from_loop(value, keys, result) ==
    IF keys = {} THEN [res |-> "Ok", q |-> result]
    ELSE LET key == CHOOSE k \in keys : TRUE
             step == Query_try_from_entry(result, key, value[key])
         IN  IF step.res # "Ok" THEN step
             ELSE Query_try_from_loop(value, keys \ {key}, step.q)

\* TryFrom<bson::Document> for Query
Query_try_from(value) == Query_try_from_loop(value, DOMAIN value, Query_new)

(***************************************************************************)
(* SimpleQuery (core/query.rs): struct SimpleQuery(Query), a tuple of one  *)
(* Query.                                                                  *)
(***************************************************************************)
SimpleQuery(query) == << query >>

SimpleQuery_new == SimpleQuery(Query_new)

SimpleQuery_q(s) == s[1]

SimpleQuery_equals(s, key, value) == SimpleQuery(Query_field(SimpleQuery_q(s), key, value))

SimpleQuery_not_equals(s, key, value) ==
    SimpleQuery(Query_subquery(SimpleQuery_q(s), key,
                               Query_build(Query_not_equals(Query_new, value))))

SimpleQuery_less_than(s, key, value) ==
    SimpleQuery(Query_subquery(SimpleQuery_q(s), key,
                               Query_build(Query_less_than(Query_new, value))))

SimpleQuery_less_than_equal(s, key, value) ==
    SimpleQuery(Query_subquery(SimpleQuery_q(s), key,
                               Query_build(Query_less_than_equal(Query_new, value))))

SimpleQuery_greater_than(s, key, value) ==
    SimpleQuery(Query_subquery(SimpleQuery_q(s), key,
                               Query_build(Query_greater_than(Query_new, value))))

SimpleQuery_greater_than_equal(s, key, value) ==
    SimpleQuery(Query_subquery(SimpleQuery_q(s), key,
                               Query_build(Query_greater_than_equal(Query_new, value))))

SimpleQuery_in_array(s, key, value) ==
    SimpleQuery(Query_subquery(SimpleQuery_q(s), key,
                               Query_build(Query_in_array(Query_new, value))))

SimpleQuery_not_in_array(s, key, value) ==
    SimpleQuery(Query_subquery(SimpleQuery_q(s), key,
                               Query_build(Query_not_in_array(Query_new, value))))

SimpleQuery_not(s, key, expr) ==
    SimpleQuery(Query_subquery(SimpleQuery_q(s), key,
                               Query_build(Query_not(Query_new, expr))))

\* impl From<Query> for SimpleQuery
SimpleQuery_from(value) == SimpleQuery(value)

\* impl From<SimpleQuery> for Query
Query_from_simple(value) == value[1]

(***************************************************************************)
(* The document type (ormox_test/src/main.rs, as expanded by the           *)
(* ormox_document attribute): id, name, age and the skipped _collection.   *)
(***************************************************************************)
Doc(id, name, age, coll) == [id |-> id, name |-> name, age |-> age, _collection |-> coll]

Document_id(d) == d.id

id_field == "_id"

attached_collection(d) == d._collection

attach_collection(d, c) == [d EXCEPT !._collection = Some(c)]

\* a field value the wire format cannot hold (for a document type with an
\* unsigned field, a value above i64::MAX): bson::to_document returns an error
Unserializable == -1

to_document_ok(d) == d.age # Unserializable

\* bson::to_document(&d): _collection is #[serde(skip)], id is renamed to the alias
to_document(d) ==
    [_id |-> BString(UuidToString(d.id)), name |-> BString(d.name), age |-> BInt(d.age)]

\* bson::from_document::<T>(data)
from_document_ok(b) ==
    /\ {"_id", "name", "age"} \subseteq DOMAIN b
    /\ b["_id"].t = "String" /\ IsUuidString(b["_id"].v)
    /\ b["name"].t = "String"
    /\ b["age"].t = "Int"

from_document(b) == Doc(UuidParse(b["_id"].v), b["name"].v, b["age"].v, None)

\* a parse that drops the collection it is given
Document_parse_unattached(b, collection) ==
    IF ~from_document_ok(b)
    THEN [res |-> "Deserialization", doc |-> <<>>]
    ELSE [res |-> "Ok", doc |-> << from_document(b) >>]

\* Document::parse(data, collection)
Document_parse(b, collection) ==
    IF ~from_document_ok(b)
    THEN [res |-> "Deserialization", doc |-> <<>>]
    ELSE [res |-> "Ok",
          doc |-> << IF collection # None
                     THEN attach_collection(from_document(b), Unwrap(collection))
                     ELSE from_document(b) >>]

(***************************************************************************)
(* Find options and operation cardinality (core/driver.rs).                *)
(***************************************************************************)
One == "One"
Many == "Many"

Find(operation, offset, limit, sort) ==
    [operation |-> operation, offset |-> offset, limit |-> limit, sort |-> sort]

Find_many == Find(Many, None, None, None)

Find_one == Find(One, None, None, None)

Sorting_asc(key) == [dir |-> "Ascending", field |-> key]

Sorting_desc(key) == [dir |-> "Descending", field |-> key]

(***************************************************************************)
(* Index declarations (core/document.rs).                                  *)
(***************************************************************************)
Index(fields, name, unique) == [fields |-> fields, name |-> name, unique |-> unique]

Index_new(field) == Index(<< field >>, None, FALSE)

\* the field names of the indexes under construction, in the order of str::cmp
FieldNames == << "a", "b", "c" >>

FieldRank(f) == CHOOSE i \in 1..Len(FieldNames) : FieldNames[i] = f

\* Vec<String>::sort
RECURSIVE Vec_sort(_)
Vec_sort(v) ==
    IF v = << >> THEN << >>
    ELSE LET first == CHOOSE i \in 1..Len(v) :
                         /\ \A j \in 1..Len(v) : FieldRank(v[i]) <= FieldRank(v[j])
                         /\ \A j \in 1..(i - 1) : v[j] # v[i]
         IN  << v[first] >> \o Vec_sort(SubSeq(v, 1, first - 1) \o SubSeq(v, first + 1, Len(v)))

\* Vec<String>::dedup: of consecutive equal elements the first stays
RECURSIVE Vec_dedup(_)
Vec_dedup(v) ==
    IF Len(v) <= 1 THEN v
    ELSE IF v[1] = v[2] THEN Vec_dedup(Tail(v))
         ELSE << v[1] >> \o Vec_dedup(Tail(v))

Vec_contains(v, x) == \E i \in 1..Len(v) : v[i] = x

Index_new_compound(fields) == Index(Vec_dedup(Vec_sort(fields)), None, FALSE)

\* a field() that pushes the field and leaves the list as it is
Index_field_push(index, field) ==
    IF ~Vec_contains(index.fields, field)
    THEN [index EXCEPT !.fields = Append(index.fields, field)]
    ELSE index

Index_field(index, field) ==
    IF ~Vec_contains(index.fields, field)
    THEN [index EXCEPT !.fields = Vec_sort(Append(index.fields, field))]
    ELSE index

Index_named(index, name) == [index EXCEPT !.name = Some(name)]

Index_unique(index, unique) == [index EXCEPT !.unique = unique]

(***************************************************************************)
(* The backend collection the drivers call into: an ordered list of wire   *)
(* documents with a unique "_id".  These operators are the backend calls   *)
(* the driver makes (find_one, find + sort/skip/limit, insert_many,        *)
(* update_one/many with and without upsert, delete_one/many).              *)
(***************************************************************************)
Matches(filter, d) ==
    \A n \in DOMAIN filter : n \in DOMAIN d /\ BsonEq(d[n], filter[n])

MatchIndexes(st, filter) == {i \in 1..Len(st) : Matches(filter, st[i])}

MinOf(S) == CHOOSE i \in S : \A j \in S : i <= j

RemoveAt(s, i) == SubSeq(s, 1, i - 1) \o SubSeq(s, i + 1, Len(s))

StringOrder == << "Ada", "Bob" >> \o UuidStrings

BsonRank(b) ==
    IF b.t = "Int" THEN b.v
    ELSE CHOOSE i \in 1..Len(StringOrder) : StringOrder[i] = b.v

\* the sort key of a document: a missing field sorts first
SortRank(d, field) == IF field \in DOMAIN d THEN BsonRank(d[field]) + 1 ELSE 0

RECURSIVE SortDocs(_, _)
SortDocs(s, sort) ==
    IF s = << >> THEN << >>
    ELSE LET before(i, j) ==
                 IF sort.dir = "Ascending"
                 THEN SortRank(s[i], sort.field) < SortRank(s[j], sort.field)
                 ELSE SortRank(s[i], sort.field) > SortRank(s[j], sort.field)
             first == MinOf({i \in 1..Len(s) : \A j \in 1..Len(s) : ~before(j, i)})
         IN  << s[first] >> \o SortDocs(RemoveAt(s, first), sort)

backend_find_one(st, filter) ==
    IF MatchIndexes(st, filter) = {} THEN None
    ELSE Some(st[MinOf(MatchIndexes(st, filter))])

backend_find(st, filter, sort, skip, limit) ==
    LET matched == SelectSeq(st, LAMBDA d : Matches(filter, d))
        sorted == IF sort = None THEN matched ELSE SortDocs(matched, Unwrap(sort))
        skipped == IF skip = None THEN sorted
                   ELSE SubSeq(sorted, Unwrap(skip) + 1, Len(sorted))
    IN  IF limit = None \/ Unwrap(limit) >= Len(skipped) THEN skipped
        ELSE SubSeq(skipped, 1, Unwrap(limit))

\* insert_many: a duplicate "_id" is an error and nothing is inserted
backend_insert_many(st, docs) ==
    LET all == st \o docs
        dup == \E i, j \in 1..Len(all) : i < j /\ BsonEq(all[i]["_id"], all[j]["_id"])
    IN  IF dup THEN [err |-> TRUE, st |-> st, ids |-> << >>]
        ELSE [err |-> FALSE, st |-> all,
              ids |-> [i \in 1..Len(docs) |-> docs[i]["_id"]]]

\* the fields an update document writes: the argument of "$set", or the
\* update document itself when it is a plain document
UpdateFields(update) == IF "$set" \in DOMAIN update THEN update["$set"] ELSE update

ApplyFields(d, fields) ==
    [n \in (DOMAIN d) \cup (DOMAIN fields) |-> IF n \in DOMAIN fields THEN fields[n] ELSE d[n]]

\* update_one / update_many (with options): the primary key cannot be changed;
\* with upsert and no match a document made of the filter and the fields is created
backend_update(st, filter, update, count, upsert) ==
    LET fields == UpdateFields(update)
        hit == MatchIndexes(st, filter)
        target == IF count = One /\ hit # {} THEN {MinOf(hit)} ELSE hit
        moves == \E i \in target : "_id" \in DOMAIN fields /\ ~BsonEq(st[i]["_id"], fields["_id"])
    IN  IF moves THEN [err |-> TRUE, st |-> st]
        ELSE IF hit = {} /\ upsert
        THEN [err |-> FALSE, st |-> Append(st, ApplyFields(filter, fields))]
        ELSE [err |-> FALSE,
              st |-> [i \in 1..Len(st) |->
                        IF i \in target THEN ApplyFields(st[i], fields) ELSE st[i]]]

backend_delete(st, filter, count) ==
    LET hit == MatchIndexes(st, filter)
    IN  IF hit = {} THEN st
        ELSE IF count = One THEN RemoveAt(st, MinOf(hit))
        ELSE SelectSeq(st, LAMBDA d : ~Matches(filter, d))

\* the name the backend keeps an index under: the one given, or one derived
\* from the keys (every index declared here is on the field name)
backend_index_name(index) == IF index.name = None THEN "name_1" ELSE Unwrap(index.name)

\* create_index: an index of that name with other options is an error
backend_create_index(ixs, index) ==
    LET new == [name |-> backend_index_name(index), unique |-> index.unique]
    IN  IF \E x \in ixs : x.name = new.name /\ x # new
        THEN [err |-> TRUE, ixs |-> ixs]
        ELSE [err |-> FALSE, ixs |-> ixs \cup {new}]

backend_drop_index(ixs, name) == {x \in ixs : x.name # name}

(***************************************************************************)
(* PoloDriver (crates/drivers/ormox_driver_polodb/src/lib.rs).             *)
(* st is the driver's stored collection; fail is the backend reporting an *)
(* error for the call, which wrap() turns into a Driver error.             *)
(***************************************************************************)
PoloDriver_insert(st, documents, fail, order) ==
    LET r == backend_insert_many(st, documents)
        \* result.inserted_ids.values(): the map's iteration order
        raw == [i \in 1..Len(r.ids) |-> r.ids[order[i]]]
    IN  IF fail \/ r.err THEN [res |-> "Driver", st |-> st, ids |-> << >>]
        ELSE IF \E i \in 1..Len(raw) : ~(raw[i].t = "String" /\ IsUuidString(raw[i].v))
        THEN [res |-> "Driver", st |-> r.st, ids |-> << >>]
        ELSE [res |-> "Ok", st |-> r.st,
              ids |-> [i \in 1..Len(raw) |-> UuidParse(raw[i].v)]]

\* update_one / update_many with the update document as given, no upsert option
PoloDriver_update(st, query, update, count, fail) ==
    LET filter == Query_try_into(query)
        r == backend_update(st, filter.doc, update, count, FALSE)
    IN  IF ~filter.ok \/ fail \/ r.err THEN [res |-> "Driver", st |-> st]
        ELSE [res |-> "Ok", st |-> r.st]

\* update_one_with_options / update_many_with_options: {"$set": document}, upsert(true)
PoloDriver_upsert(st, query, document, count, fail) ==
    LET filter == Query_try_into(query)
        r == backend_update(st, filter.doc, [x \in {"$set"} |-> document], count, TRUE)
    IN  IF ~filter.ok \/ fail \/ r.err THEN [res |-> "Driver", st |-> st]
        ELSE [res |-> "Ok", st |-> r.st]

PoloDriver_delete(st, query, count, fail) ==
    LET filter == Query_try_into(query)
    IN  IF ~filter.ok \/ fail THEN [res |-> "Driver", st |-> st]
        ELSE [res |-> "Ok", st |-> backend_delete(st, filter.doc, count)]

\* a find that pages under One as well: sort, skip and limit, then the first
PoloDriver_find_paging_one(st, query, options, fail) ==
    LET filter == Query_try_into(query)
        docs == backend_find(st, filter.doc, options.sort, options.offset, options.limit)
    IN  IF ~filter.ok \/ fail THEN [res |-> "Driver", docs |-> << >>]
        ELSE IF options.operation = One
        THEN [res |-> "Ok", docs |-> IF docs = << >> THEN << >> ELSE << docs[1] >>]
        ELSE [res |-> "Ok", docs |-> docs]

\* a find whose limit is taken before the offset
PoloDriver_find_limit_first(st, query, options, fail) ==
    LET filter == Query_try_into(query)
        limited == backend_find(st, filter.doc, options.sort, None, options.limit)
    IN  IF ~filter.ok \/ fail THEN [res |-> "Driver", docs |-> << >>]
        ELSE IF options.operation = One
        THEN LET found == backend_find_one(st, filter.doc)
             IN  [res |-> "Ok", docs |-> IF found = None THEN << >> ELSE << Unwrap(found) >>]
        ELSE [res |-> "Ok",
              docs |-> IF options.offset = None THEN limited
                       ELSE SubSeq(limited, Unwrap(options.offset) + 1, Len(limited))]

\* the items the cursor of find.run() yields for the documents docs: for the
\* positions in broken the error the backend reports instead of the document
Cursor(docs, broken) ==
    [i \in 1..Len(docs) |-> IF i \in broken THEN [res |-> "Err", doc |-> << >>]
                            ELSE [res |-> "Ok", doc |-> docs[i]]]

\* .filter(|r| r.is_ok()).map(|r| r.unwrap()).collect()
collect_ok(items) ==
    LET kept == SelectSeq(items, LAMBDA r : r.res = "Ok")
    IN  [i \in 1..Len(kept) |-> kept[i].doc]

\* PoloDriver::find, the cursor reporting an error for the items in broken
PoloDriver_find_cursor(st, query, options, fail, broken) ==
    LET filter == Query_try_into(query)
    IN  IF ~filter.ok \/ fail THEN [res |-> "Driver", docs |-> << >>]
        ELSE IF options.operation = One
        THEN LET found == backend_find_one(st, filter.doc)
             IN  [res |-> "Ok", docs |-> IF found = None THEN << >> ELSE << Unwrap(found) >>]
        ELSE [res |-> "Ok",
              docs |-> collect_ok(Cursor(backend_find(st, filter.doc, options.sort,
                                                      options.offset, options.limit),
                                         broken))]

PoloDriver_find(st, query, options, fail) ==
    PoloDriver_find_cursor(st, query, options, fail, {})

\* PoloDriver::all, the cursor reporting an error for the items in broken:
\* find(doc! {}) with sort, skip and limit; options.operation is not read
PoloDriver_all_cursor(st, options, fail, broken) ==
    IF fail THEN [res |-> "Driver", docs |-> << >>]
    ELSE [res |-> "Ok",
          docs |-> collect_ok(Cursor(backend_find(st, << >>, options.sort, options.offset,
                                                  options.limit),
                                     broken))]

PoloDriver_all(st, options, fail) == PoloDriver_all_cursor(st, options, fail, {})

PoloDriver_create_index(ixs, index, fail) ==
    LET r == backend_create_index(ixs, index)
    IN  IF fail \/ r.err THEN [res |-> "Driver", ixs |-> ixs]
        ELSE [res |-> "Ok", ixs |-> r.ixs]

\* whether the backend reports a name it does not hold is part of fail
PoloDriver_drop_index(ixs, name, fail) ==
    IF fail THEN [res |-> "Driver", ixs |-> ixs]
    ELSE [res |-> "Ok", ixs |-> backend_drop_index(ixs, name)]

(***************************************************************************)
(* DatabaseDriver (core/driver.rs): the provided methods, which a driver   *)
(* that does not manage indexes inherits.                                  *)
(***************************************************************************)
\* a default that reports success without doing anything
DatabaseDriver_create_index_silent(ixs, index, fail) == [res |-> "Ok", ixs |-> ixs]

DatabaseDriver_create_index(ixs, index, fail) == [res |-> "Unimplemented", ixs |-> ixs]

DatabaseDriver_drop_index(ixs, name, fail) == [res |-> "Unimplemented", ixs |-> ixs]

\* the clients whose driver overrides create_index and drop_index (as
\* PoloDriver and MongoDriver do); the driver of the other clients implements
\* the required methods only
IndexDrivers == {1}

(***************************************************************************)
(* Collection<T> (crates/ormox_core/src/client.rs).  A Collection handle   *)
(* is its Client, and a Client is its driver: c names all three.  Every    *)
(* operator returns the result kind, the driver's store after the call,    *)
(* the documents and identifiers returned, the driver methods invoked and  *)
(* the message an error carries.                                           *)
(***************************************************************************)
R(res, st, out, ids, calls, msg) ==
    [res |-> res, st |-> st, out |-> out, ids |-> ids, calls |-> calls, msg |-> msg]

DriverCall(c, method) == [driver |-> c, method |-> method]

\* parse every raw document, attaching this collection; the first failure aborts
ParseAll(c, st, raw, calls) ==
    LET parsed == [i \in 1..Len(raw) |-> Document_parse(raw[i], Some(c))]
    IN  IF \E i \in 1..Len(raw) : parsed[i].res # "Ok"
        THEN R("Deserialization", st, << >>, << >>, calls, << >>)
        ELSE R("Ok", st, [i \in 1..Len(raw) |-> parsed[i].doc[1]], << >>, calls, << >>)

Collection_find(c, st, query, options, fail) ==
    LET opts == IF options = None THEN Find_many ELSE Unwrap(options)
        r == PoloDriver_find(st, query, opts, fail)
        calls == << DriverCall(c, "find") >>
    IN  IF ~Query_compatible(query)
        THEN R("Compatibility", st, << >>, << >>, << >>, << >>)
        ELSE IF r.res # "Ok" THEN R(r.res, st, << >>, << >>, calls, << >>)
        ELSE ParseAll(c, st, r.docs, calls)

Collection_all(c, st, options, fail) ==
    LET opts == IF options = None THEN Find_many ELSE Unwrap(options)
        r == PoloDriver_all(st, opts, fail)
        calls == << DriverCall(c, "all") >>
    IN  IF r.res # "Ok" THEN R(r.res, st, << >>, << >>, calls, << >>)
        ELSE ParseAll(c, st, r.docs, calls)

\* Collection::find, the driver's cursor reporting an error for the items in broken
Collection_find_cursor(c, st, query, options, fail, broken) ==
    LET opts == IF options = None THEN Find_many ELSE Unwrap(options)
        r == PoloDriver_find_cursor(st, query, opts, fail, broken)
        calls == << DriverCall(c, "find") >>
    IN  IF ~Query_compatible(query)
        THEN R("Compatibility", st, << >>, << >>, << >>, << >>)
        ELSE IF r.res # "Ok" THEN R(r.res, st, << >>, << >>, calls, << >>)
        ELSE ParseAll(c, st, r.docs, calls)

\* Collection::all, the driver's cursor reporting an error for the items in broken
Collection_all_cursor(c, st, options, fail, broken) ==
    LET opts == IF options = None THEN Find_many ELSE Unwrap(options)
        r == PoloDriver_all_cursor(st, opts, fail, broken)
        calls == << DriverCall(c, "all") >>
    IN  IF r.res # "Ok" THEN R(r.res, st, << >>, << >>, calls, << >>)
        ELSE ParseAll(c, st, r.docs, calls)

\* an insert that submits the documents serialized before the failing one
Collection_insert_partial(c, st, docs, fail, order) ==
    LET bad == {i \in 1..Len(docs) : ~to_document_ok(docs[i])}
        upto == IF bad = {} THEN Len(docs) ELSE MinOf(bad) - 1
        serialized == [i \in 1..upto |-> to_document(docs[i])]
        r == PoloDriver_insert(st, serialized, fail, [i \in 1..upto |-> i])
    IN  IF bad = {} THEN R(r.res, r.st, << >>, r.ids, << DriverCall(c, "insert") >>, << >>)
        ELSE R("Serialization", r.st, << >>, << >>, << DriverCall(c, "insert") >>, << >>)

\* every document is serialized before the driver is called: the first
\* failure returns the Serialization error
Collection_insert(c, st, docs, fail, order) ==
    LET serialized == [i \in 1..Len(docs) |-> to_document(docs[i])]
        r == PoloDriver_insert(st, serialized, fail, order)
    IN  IF \E i \in 1..Len(docs) : ~to_document_ok(docs[i])
        THEN R("Serialization", st, << >>, << >>, << >>, << >>)
        ELSE R(r.res, r.st, << >>, r.ids, << DriverCall(c, "insert") >>, << >>)

\* self.driver().update(name, query, update, operations, upsert): the call goes
\* to DatabaseDriver::update, which has no parameter that receives upsert;
\* DatabaseDriver::upsert is called by no method of Collection
\* a failure of bson::to_document(&update) is returned as Deserialization
Collection_update(c, st, query, update, operations, upsert, fail) ==
    LET r == PoloDriver_update(st, query, to_document(update), operations, fail)
    IN  IF ~Query_compatible(query)
        THEN R("Compatibility", st, << >>, << >>, << >>, << >>)
        ELSE IF ~to_document_ok(update)
        THEN R("Deserialization", st, << >>, << >>, << >>, << >>)
        ELSE R(r.res, r.st, << >>, << >>, << DriverCall(c, "update") >>, << >>)

\* delete whose driver call is built and never awaited
Collection_delete_not_awaited(c, st, query, operations, fail) ==
    R("Ok", st, << >>, << >>, << >>, << >>)

\* a delete that calls the driver a second time when the first call fails
Collection_delete_retrying(c, st, query, operations, fail) ==
    LET r == PoloDriver_delete(st, query, operations, fail)
        again == PoloDriver_delete(st, query, operations, FALSE)
    IN  IF ~Query_compatible(query)
        THEN R("Compatibility", st, << >>, << >>, << >>, << >>)
        ELSE IF r.res = "Ok"
        THEN R(r.res, r.st, << >>, << >>, << DriverCall(c, "delete") >>, << >>)
        ELSE R(again.res, again.st, << >>, << >>,
               << DriverCall(c, "delete"), DriverCall(c, "delete") >>, << >>)

Collection_delete(c, st, query, operations, fail) ==
    LET r == PoloDriver_delete(st, query, operations, fail)
    IN  IF ~Query_compatible(query)
        THEN R("Compatibility", st, << >>, << >>, << >>, << >>)
        ELSE R(r.res, r.st, << >>, << >>, << DriverCall(c, "delete") >>, << >>)

\* find_one that indexes the result list without looking at its length
Collection_find_one_indexing(c, st, query, fail) ==
    LET r == Collection_find(c, st, query, Some(Find_one), fail)
    IN  IF r.res # "Ok" THEN r
        ELSE IF Len(r.out) > 0 THEN R("Ok", st, << r.out[1] >>, << >>, r.calls, << >>)
        ELSE R("panic", st, << >>, << >>, r.calls, << >>)

Collection_find_one(c, st, query, fail) ==
    LET r == Collection_find(c, st, query, Some(Find_one), fail)
        wire == Query_try_into(query)
    IN  IF ~Query_compatible(query)
        THEN R("Compatibility", st, << >>, << >>, << >>, << >>)
        ELSE IF r.res # "Ok" THEN r
        ELSE IF Len(r.out) > 0 THEN R("Ok", st, << r.out[1] >>, << >>, r.calls, << >>)
        ELSE R("NotFound", st, << >>, << >>, r.calls,
               IF wire.ok THEN << wire.doc >> ELSE << "Unparseable query" >>)

Collection_find_many(c, st, query, fail) ==
    Collection_find(c, st, query, Some(Find_many), fail)

Collection_get(c, st, id, fail) ==
    Collection_find_one(c, st, Query_build(Query_field(Query_new, id_field, BString(id))), fail)

\* save whose query is on the name instead of the identifier
Collection_save_by_name(c, st, document, fail) ==
    Collection_update(c, st,
        Query_build(Query_field(Query_new, "name", BString(document.name))),
        document, One, TRUE, fail)

Collection_save(c, st, document, fail) ==
    Collection_update(c, st,
        Query_build(Query_field(Query_new, id_field, BString(UuidToString(Document_id(document))))),
        document, One, TRUE, fail)

Collection_delete_one(c, st, query, fail) == Collection_delete(c, st, query, One, fail)

Collection_delete_many(c, st, query, fail) == Collection_delete(c, st, query, Many, fail)

\* self.driver().create_index(name, index): dispatched on the client's driver
Collection_create_index(c, ixs, index, fail) ==
    LET r == IF c \in IndexDrivers THEN PoloDriver_create_index(ixs, index, fail)
             ELSE DatabaseDriver_create_index(ixs, index, fail)
    IN  [res |-> r.res, ixs |-> r.ixs, calls |-> << DriverCall(c, "create_index") >>]

Collection_drop_index(c, ixs, index_name, fail) ==
    LET r == IF c \in IndexDrivers THEN PoloDriver_drop_index(ixs, index_name, fail)
             ELSE DatabaseDriver_drop_index(ixs, index_name, fail)
    IN  [res |-> r.res, ixs |-> r.ixs, calls |-> << DriverCall(c, "drop_index") >>]

(***************************************************************************)
(* Client and the global instance (client.rs, lib.rs).                     *)
(***************************************************************************)
\* a set that replaces the value already stored
OnceLock_set_replacing(cell, value) == [ok |-> cell = None, cell |-> Some(value)]

\* a set that reports success although the cell was full
OnceLock_set_always_ok(cell, value) ==
    [ok |-> TRUE, cell |-> IF cell = None THEN Some(value) ELSE cell]

\* OnceLock::set: stores the value when the cell is empty, fails otherwise
OnceLock_set(cell, value) ==
    IF cell = None THEN [ok |-> TRUE, cell |-> Some(value)]
    ELSE [ok |-> FALSE, cell |-> cell]

\* Client::global(): ORMOX.get().cloned()
Client_global(cell) == cell

(***************************************************************************)
(* Document-level convenience (core/document.rs).  g is the global cell.   *)
(***************************************************************************)
\* a resolution that never falls back to the global client
Document_collection_attached_only(d, g) == attached_collection(d)

\* a resolution that prefers the global client to the attached collection
Document_collection_global_first(d, g) ==
    IF Client_global(g) # None THEN Some(Unwrap(Client_global(g)))
    ELSE attached_collection(d)

Document_collection(d, g) ==
    IF attached_collection(d) # None THEN attached_collection(d)
    ELSE IF Client_global(g) # None THEN Some(Unwrap(Client_global(g)))
    ELSE None

\* the store of the collection a document resolves to (unused when it resolves to none)
TargetStore(d, g, stores) ==
    IF Document_collection(d, g) = None THEN << >>
    ELSE stores[Unwrap(Document_collection(d, g))]

Document_save(d, g, stores, fail) ==
    IF Document_collection(d, g) # None
    THEN Collection_save(Unwrap(Document_collection(d, g)), TargetStore(d, g, stores), d, fail)
    ELSE R("Uninitialized", << >>, << >>, << >>, << >>, << >>)

\* a delete that selects by the document's name
Document_delete_by_name(d, g, stores, fail) ==
    IF Document_collection(d, g) # None
    THEN Collection_delete_one(Unwrap(Document_collection(d, g)), TargetStore(d, g, stores),
             Query_build(Query_field(Query_new, "name", BString(d.name))),
             fail)
    ELSE R("Uninitialized", << >>, << >>, << >>, << >>, << >>)

Document_delete(d, g, stores, fail) ==
    IF Document_collection(d, g) # None
    THEN Collection_delete_one(Unwrap(Document_collection(d, g)), TargetStore(d, g, stores),
             Query_build(Query_field(Query_new, id_field, BString(UuidToString(Document_id(d))))),
             fail)
    ELSE R("Uninitialized", << >>, << >>, << >>, << >>, << >>)

(***************************************************************************)
(* Inputs of the engine calls.                                             *)
(***************************************************************************)
PlainDocs == {Doc(u, n, a, None) : u \in Uuids, n \in Names, a \in Ages}

AllDocs == {Doc(u, n, a, coll) : u \in Uuids, n \in Names, a \in Ages,
                                 coll \in {None} \cup {Some(c) : c \in Clients}}

IdQuery(u) == Query_build(Query_field(Query_new, id_field, BString(UuidToString(u))))

NameQuery(n) == Query_build(Query_field(Query_new, "name", BString(n)))

Queries == {Query_build(Query_new)} \cup {IdQuery(u) : u \in Uuids} \cup {NameQuery(n) : n \in Names}

FindOptions ==
    { None, Some(Find_one), Some(Find_many),
      Some(Find(Many, Some(1), None, None)),
      Some(Find(Many, None, Some(1), Some(Sorting_desc("name")))),
      Some(Find(Many, Some(1), Some(1), Some(Sorting_desc("name")))),
      Some(Find(Many, None, None, Some(Sorting_asc("name")))),
      Some(Find(One, Some(1), Some(1), Some(Sorting_desc("name")))) }

\* the documents handed to insert: the plain ones and one that does not serialize
InsertDocs == PlainDocs \cup {Doc(2, "Bob", Unserializable, None)}

\* the batches of Collection::insert: one document or two
Batches == {<< d >> : d \in InsertDocs} \cup {<< d, e >> : d, e \in InsertDocs}

Orders(n) == {f \in [1..n -> 1..n] : \A i, j \in 1..n : f[i] = f[j] => i = j}

(***************************************************************************)
(* State machine of the engine calls.  One caller issues the calls one     *)
(* after the other: every action is one whole call, recorded in last with  *)
(* what it returned, and the caller drops a result before its next call.   *)
(***************************************************************************)
Call(op, client, in, query, key, options, fail, before, r) ==
    [op |-> op, client |-> client, in |-> in, query |-> query, key |-> key,
     options |-> options, fail |-> fail, before |-> before,
     res |-> r.res, out |-> r.out, ids |-> r.ids, calls |-> r.calls, msg |-> r.msg,
     broken |-> {}]

NoResult == R("Ok", << >>, << >>, << >>, << >>, << >>)

Idle == Call("idle", None, << >>, << >>, "", None, FALSE, << >>, NoResult)

NotSaving == [pc |-> "idle", client |-> None, doc |-> << >>, res |-> ""]

NotBuilt == [q |-> None, at |-> 0, child |-> Query_new, calls |-> 0, childAt |-> 0]

NotParsing == [pc |-> "idle", value |-> << >>, res |-> "", q |-> << >>, out |-> << >>]

Init ==
    /\ ORMOX = None
    /\ store = [c \in Clients |-> << >>]
    /\ last = Idle
    /\ pc = [t \in Threads |-> "start"]
    /\ ret = [t \in Threads |-> None]
    /\ seen = << >>
    /\ indexes = [c \in Clients |-> {}]
    /\ saves = [t \in Savers |-> NotSaving]
    /\ builder = [q |-> Query_new, log |-> << >>]
    /\ parser = NotParsing
    /\ built = NotBuilt
    /\ declared = [index |-> None, log |-> << >>]
    /\ simple = [s |-> SimpleQuery_new, log |-> << >>, back |-> None]

\* a call on the collection of client c: the store of c's driver becomes r.st
Engine(op, c, in, query, key, options, fail, r) ==
    /\ last = Idle
    /\ last' = Call(op, Some(c), in, query, key, options, fail, store, r)
    /\ store' = [store EXCEPT ![c] = r.st]
    /\ UNCHANGED <<ORMOX, pc, ret, seen, indexes, saves, builder, parser, built, declared, simple>>

\* Client::create_global(driver) as one call; the client it creates is c
create_global(c) ==
    LET r == OnceLock_set(ORMOX, c)
    IN  /\ last = Idle
        /\ ORMOX' = r.cell
        /\ last' = Call("create_global", Some(c), << >>, << >>, "", None, FALSE, store,
                        IF r.ok THEN NoResult
                        ELSE R("panic", << >>, << >>, << >>, << >>, << >>))
        /\ UNCHANGED <<store, pc, ret, seen, indexes, saves, builder, parser, built, declared, simple>>

find(c, query, options, fail) ==
    Engine("find", c, << >>, query, "", options, fail, Collection_find(c, store[c], query, options, fail))

all(c, options, fail) ==
    Engine("all", c, << >>, << >>, "", options, fail, Collection_all(c, store[c], options, fail))

find_one(c, query, fail) ==
    Engine("find_one", c, << >>, query, "", None, fail, Collection_find_one(c, store[c], query, fail))

find_many(c, query, fail) ==
    Engine("find_many", c, << >>, query, "", None, fail, Collection_find_many(c, store[c], query, fail))

get(c, id, fail) ==
    Engine("get", c, << >>, << >>, id, None, fail, Collection_get(c, store[c], id, fail))

insert(c, docs, fail, order) ==
    Engine("insert", c, docs, << >>, "", None, fail, Collection_insert(c, store[c], docs, fail, order))

update(c, query, document, operations, upsert, fail) ==
    Engine("update", c, << document >>, query, "", None, fail,
           Collection_update(c, store[c], query, document, operations, upsert, fail))

save(c, document, fail) ==
    Engine("save", c, << document >>, << >>, "", None, fail, Collection_save(c, store[c], document, fail))

delete_one(c, query, fail) ==
    Engine("delete_one", c, << >>, query, "", None, fail, Collection_delete_one(c, store[c], query, fail))

delete_many(c, query, fail) ==
    Engine("delete_many", c, << >>, query, "", None, fail, Collection_delete_many(c, store[c], query, fail))

\* Document::save / Document::delete: the collection is resolved from the document
DocumentCall(op, d, fail, r) ==
    /\ last = Idle
    /\ last' = Call(op, Document_collection(d, ORMOX), << d >>, << >>, "", None, fail, store, r)
    /\ store' = IF Document_collection(d, ORMOX) = None THEN store
                ELSE [store EXCEPT ![Unwrap(Document_collection(d, ORMOX))] = r.st]
    /\ UNCHANGED <<ORMOX, pc, ret, seen, indexes, saves, builder, parser, built, declared, simple>>

document_save(d, fail) == DocumentCall("document_save", d, fail, Document_save(d, ORMOX, store, fail))

document_delete(d, fail) ==
    DocumentCall("document_delete", d, fail, Document_delete(d, ORMOX, store, fail))

\* the caller drops the result it holds
Drop ==
    /\ last # Idle
    /\ last' = Idle
    /\ UNCHANGED <<ORMOX, store, pc, ret, seen, indexes, saves, builder, parser, built, declared, simple>>

Next ==
    \/ \E c \in Clients : create_global(c)
    \/ \E c \in Clients, q \in Queries, o \in FindOptions, fail \in BOOLEAN : find(c, q, o, fail)
    \/ \E c \in Clients, o \in FindOptions, fail \in BOOLEAN : all(c, o, fail)
    \/ \E c \in Clients, q \in Queries, fail \in BOOLEAN : find_one(c, q, fail)
    \/ \E c \in Clients, q \in Queries, fail \in BOOLEAN : find_many(c, q, fail)
    \/ \E c \in Clients, u \in DOMAIN UuidStrings, fail \in BOOLEAN : get(c, UuidToString(u), fail)
    \/ \E c \in Clients, docs \in Batches, fail \in BOOLEAN :
          \E order \in Orders(Len(docs)) : insert(c, docs, fail, order)
    \/ \E c \in Clients, q \in Queries, d \in PlainDocs, n \in {One, Many}, fail \in BOOLEAN :
          update(c, q, d, n, FALSE, fail)
    \/ \E c \in Clients, d \in PlainDocs, fail \in BOOLEAN : save(c, d, fail)
    \/ \E c \in Clients, q \in Queries, fail \in BOOLEAN : delete_one(c, q, fail)
    \/ \E c \in Clients, q \in Queries, fail \in BOOLEAN : delete_many(c, q, fail)
    \/ \E d \in AllDocs, fail \in BOOLEAN : document_save(d, fail)
    \/ \E d \in AllDocs, fail \in BOOLEAN : document_delete(d, fail)
    \/ Drop

Spec == Init /\ [][Next]_vars

(***************************************************************************)
(* Index management.  Documents are inserted one at a time, while the      *)
(* collection has no unique index (the inserts a unique index makes the    *)
(* backend reject are not modelled).                                       *)
(***************************************************************************)
Indexes ==
    { Index_new("name"),
      Index_named(Index_new("name"), "by_name"),
      Index_unique(Index_named(Index_new("name"), "by_name"), TRUE) }

IndexNames == {backend_index_name(index) : index \in Indexes}

IndexCall(op, c, key, fail, r) ==
    /\ last = Idle
    /\ last' = Call(op, Some(c), << >>, << >>, key, None, fail, store,
                    R(r.res, << >>, << >>, << >>, r.calls, << >>))
    /\ indexes' = [indexes EXCEPT ![c] = r.ixs]
    /\ UNCHANGED <<ORMOX, store, pc, ret, seen, saves, builder, parser, built, declared, simple>>

create_index(c, index, fail) ==
    IndexCall("create_index", c, backend_index_name(index), fail,
              Collection_create_index(c, indexes[c], index, fail))

drop_index(c, index_name, fail) ==
    IndexCall("drop_index", c, index_name, fail,
              Collection_drop_index(c, indexes[c], index_name, fail))

insert_unindexed(c, d, fail) ==
    /\ \A x \in indexes[c] : ~x.unique
    /\ insert(c, << d >>, fail, << 1 >>)

NextIndex ==
    \/ \E c \in Clients, index \in Indexes, fail \in BOOLEAN : create_index(c, index, fail)
    \/ \E c \in Clients, n \in IndexNames, fail \in BOOLEAN : drop_index(c, n, fail)
    \/ \E c \in Clients, d \in PlainDocs, fail \in BOOLEAN : insert_unindexed(c, d, fail)
    \/ Drop

SpecIndex == Init /\ [][NextIndex]_vars

(***************************************************************************)
(* Collection::save called by concurrent tasks.  A save builds its query   *)
(* and its update document from its argument alone; the one step that      *)
(* reads or writes shared state is the backend's update_one, which the     *)
(* backend runs atomically.  The collection of client 1 is filled, one     *)
(* document at a time, before the tasks start.                             *)
(***************************************************************************)
\* task t calls save(document) on the collection of client c: the future is created
save_begin(t, c, document) ==
    /\ saves[t].pc = "idle"
    /\ saves' = [saves EXCEPT ![t] =
                    [pc |-> "called", client |-> Some(c), doc |-> << document >>, res |-> ""]]
    /\ UNCHANGED <<ORMOX, store, last, pc, ret, seen, indexes, builder, parser, built, declared, simple>>

\* the driver call of task t runs and the save returns
save_driver(t, fail) ==
    /\ saves[t].pc = "called"
    /\ LET c == Unwrap(saves[t].client)
           r == Collection_save(c, store[c], saves[t].doc[1], fail)
       IN  /\ store' = [store EXCEPT ![c] = r.st]
           /\ saves' = [saves EXCEPT ![t].pc = "done", ![t].res = r.res]
    /\ UNCHANGED <<ORMOX, last, pc, ret, seen, indexes, builder, parser, built, declared, simple>>

insert_before_saves(d) ==
    /\ \A t \in Savers : saves[t].pc = "idle"
    /\ insert(1, << d >>, FALSE, << 1 >>)

NextSave ==
    \/ \E d \in PlainDocs : insert_before_saves(d)
    \/ Drop
    \/ \E t \in Savers, c \in Clients, d \in PlainDocs : save_begin(t, c, d)
    \/ \E t \in Savers, fail \in BOOLEAN : save_driver(t, fail)

SpecSave == Init /\ [][NextSave]_vars

(***************************************************************************)
(* The Query builder (core/query.rs): one action per builder method,       *)
(* called on the Query under construction.  A call is logged as its method *)
(* m and its arguments a (the field or operator name) and b.               *)
(***************************************************************************)
Apply(q, w) ==
    CASE w.m = "field" -> Query_field(q, w.a, w.b)
      [] w.m = "subquery" -> Query_subquery(q, w.a, w.b)
      [] w.m = "operation" -> Query_operation(q, w.a, w.b)
      [] w.m = "greater_than" -> Query_greater_than(q, w.b)
      [] w.m = "greater_than_equal" -> Query_greater_than_equal(q, w.b)
      [] w.m = "less_than" -> Query_less_than(q, w.b)
      [] w.m = "less_than_equal" -> Query_less_than_equal(q, w.b)
      [] w.m = "equals" -> Query_equals(q, w.b)
      [] w.m = "not_equals" -> Query_not_equals(q, w.b)
      [] w.m = "in_array" -> Query_in_array(q, w.b)
      [] w.m = "not_in_array" -> Query_not_in_array(q, w.b)
      [] w.m = "not" -> Query_not(q, w.b)
      [] w.m = "and" -> Query_and(q, w.b)
      [] w.m = "or" -> Query_or(q, w.b)

BuilderCall(m, a, b) ==
    LET w == [m |-> m, a |-> a, b |-> b]
    IN  /\ Len(builder.log) < MaxWrites
        /\ builder' = [q |-> Apply(builder.q, w), log |-> Append(builder.log, w)]
        /\ UNCHANGED <<ORMOX, store, last, pc, ret, seen, indexes, saves, parser, built, declared, simple>>

field(key, value) == BuilderCall("field", key, value)
subquery(key, child) == BuilderCall("subquery", key, child)
operation(op, value) == BuilderCall("operation", op, value)
greater_than(value) == BuilderCall("greater_than", "", value)
greater_than_equal(value) == BuilderCall("greater_than_equal", "", value)
less_than(value) == BuilderCall("less_than", "", value)
less_than_equal(value) == BuilderCall("less_than_equal", "", value)
equals(value) == BuilderCall("equals", "", value)
not_equals(value) == BuilderCall("not_equals", "", value)
in_array(value) == BuilderCall("in_array", "", value)
not_in_array(value) == BuilderCall("not_in_array", "", value)
not(value) == BuilderCall("not", "", value)
and(cases) == BuilderCall("and", "", cases)
or(cases) == BuilderCall("or", "", cases)

\* the arguments of the builder calls
OperatorNames == {"$regex", "regex"}
Numbers == {1, 2}
Scalars == {BString(n) : n \in Names}
SubQueries == {Query_build(Query_field(Query_new, "name", BString("Ada"))),
               Query_build(Query_greater_than(Query_new, 1))}
Cases == {<< >>} \cup {<< c >> : c \in SubQueries}
             \cup {<< Query_build(Query_field(Query_new, "name", BString("Ada"))),
                      Query_build(Query_greater_than(Query_new, 1)) >>}

NextQuery ==
    \/ \E n \in Names : field("name", BString(n))
    \/ \E c \in SubQueries : subquery("name", c)
    \/ \E op \in OperatorNames : operation(op, QValue(BString("Ada")))
    \/ \E v \in Numbers : greater_than(v)
    \/ greater_than_equal(1)
    \/ less_than(1)
    \/ less_than_equal(1)
    \/ \E v \in Scalars : equals(v)
    \/ not_equals(BString("Ada"))
    \/ in_array(<< BString("Ada"), BString("Bob") >>)
    \/ not_in_array(<< BString("Ada") >>)
    \/ \E c \in SubQueries : not(c)
    \/ \E cs \in Cases : and(cs)
    \/ \E cs \in Cases : or(cs)

SpecQuery == Init /\ [][NextQuery]_vars

(***************************************************************************)
(* Query::build: the caller builds a Query, passes a second Query it keeps *)
(* building into it (impl Into<Query> for &Query is a clone), takes a      *)
(* snapshot with build() and goes on calling both builders.                *)
(***************************************************************************)
\* builder.build(), the value returned kept by the caller
build ==
    /\ built.q = None
    /\ built' = [built EXCEPT !.q = Some(Query_build(builder.q)),
                               !.at = Len(builder.log),
                               !.childAt = built.calls]
    /\ UNCHANGED <<ORMOX, store, last, pc, ret, seen, indexes, saves, builder, parser,
                   declared, simple>>

\* child.greater_than(value)
child_greater_than(value) ==
    /\ built.calls < MaxWrites
    /\ built' = [built EXCEPT !.child = Query_greater_than(built.child, value),
                               !.calls = built.calls + 1]
    /\ UNCHANGED <<ORMOX, store, last, pc, ret, seen, indexes, saves, builder, parser,
                   declared, simple>>

NextBuild ==
    \/ build
    \/ \E v \in Numbers : child_greater_than(v)
    \/ greater_than(1)
    \/ subquery("name", built.child)
    \/ not(built.child)
    \/ and(<< built.child >>)

SpecBuild == Init /\ [][NextBuild]_vars

(***************************************************************************)
(* The SimpleQuery builder: one action per method, called on the           *)
(* SimpleQuery under construction, and the conversion into a Query and     *)
(* back.                                                                   *)
(***************************************************************************)
SimpleApply(s, w) ==
    CASE w.m = "equals" -> SimpleQuery_equals(s, w.a, w.b)
      [] w.m = "not_equals" -> SimpleQuery_not_equals(s, w.a, w.b)
      [] w.m = "less_than" -> SimpleQuery_less_than(s, w.a, w.b)
      [] w.m = "less_than_equal" -> SimpleQuery_less_than_equal(s, w.a, w.b)
      [] w.m = "greater_than" -> SimpleQuery_greater_than(s, w.a, w.b)
      [] w.m = "greater_than_equal" -> SimpleQuery_greater_than_equal(s, w.a, w.b)
      [] w.m = "in_array" -> SimpleQuery_in_array(s, w.a, w.b)
      [] w.m = "not_in_array" -> SimpleQuery_not_in_array(s, w.a, w.b)
      [] w.m = "not" -> SimpleQuery_not(s, w.a, w.b)

SimpleCall(m, a, b) ==
    LET w == [m |-> m, a |-> a, b |-> b]
    IN  /\ Len(simple.log) < MaxWrites
        /\ simple' = [s |-> SimpleApply(simple.s, w), log |-> Append(simple.log, w),
                      back |-> None]
        /\ UNCHANGED <<ORMOX, store, last, pc, ret, seen, indexes, saves, builder, parser,
                       built, declared>>

simple_equals(key, value) == SimpleCall("equals", key, value)
simple_not_equals(key, value) == SimpleCall("not_equals", key, value)
simple_less_than(key, value) == SimpleCall("less_than", key, value)
simple_less_than_equal(key, value) == SimpleCall("less_than_equal", key, value)
simple_greater_than(key, value) == SimpleCall("greater_than", key, value)
simple_greater_than_equal(key, value) == SimpleCall("greater_than_equal", key, value)
simple_in_array(key, value) == SimpleCall("in_array", key, value)
simple_not_in_array(key, value) == SimpleCall("not_in_array", key, value)
simple_not(key, expr) == SimpleCall("not", key, expr)

\* SimpleQuery::from(Query::from(simple))
simple_into_query_and_back ==
    /\ simple.back = None
    /\ simple' = [simple EXCEPT
                    !.back = Some(SimpleQuery_from(Query_from_simple(simple.s)))]
    /\ UNCHANGED <<ORMOX, store, last, pc, ret, seen, indexes, saves, builder, parser,
                   built, declared>>

Fields == {"name", "age"}

NextSimple ==
    \/ \E k \in Fields : simple_equals(k, BString("Ada"))
    \/ \E k \in Fields : simple_not_equals(k, BString("Ada"))
    \/ \E k \in Fields : simple_less_than(k, 1)
    \/ \E k \in Fields : simple_less_than_equal(k, 1)
    \/ \E k \in Fields : simple_greater_than(k, 1)
    \/ \E k \in Fields : simple_greater_than_equal(k, 1)
    \/ \E k \in Fields : simple_in_array(k, << BString("Ada"), BString("Bob") >>)
    \/ \E k \in Fields : simple_not_in_array(k, << BString("Ada") >>)
    \/ \E k \in Fields : simple_not(k, Query_build(Query_greater_than(Query_new, 1)))
    \/ simple_into_query_and_back

SpecSimple == Init /\ [][NextSimple]_vars

(***************************************************************************)
(* Declaring an Index (core/document.rs): Index::new or                    *)
(* Index::new_compound, then the builder methods.                          *)
(***************************************************************************)
DeclareCall(index, log) ==
    /\ declared' = [index |-> Some(index), log |-> log]
    /\ UNCHANGED <<ORMOX, store, last, pc, ret, seen, indexes, saves, builder, parser,
                   built, simple>>

index_new(f) ==
    /\ declared.index = None
    /\ DeclareCall(Index_new(f), << f >>)

index_new_compound(fields) ==
    /\ declared.index = None
    /\ DeclareCall(Index_new_compound(fields), fields)

index_field(f) ==
    /\ declared.index # None
    /\ Len(declared.log) < MaxFields
    /\ DeclareCall(Index_field(Unwrap(declared.index), f), Append(declared.log, f))

index_named(name) ==
    /\ declared.index # None
    /\ DeclareCall(Index_named(Unwrap(declared.index), name), declared.log)

index_unique(unique) ==
    /\ declared.index # None
    /\ DeclareCall(Index_unique(Unwrap(declared.index), unique), declared.log)

\* the field lists handed to Index::new_compound
CompoundFields ==
    UNION {[1..n -> {FieldNames[i] : i \in 1..Len(FieldNames)}] : n \in 0..(MaxFields - 1)}

NextDeclare ==
    \/ \E f \in {FieldNames[i] : i \in 1..Len(FieldNames)} : index_new(f)
    \/ \E fields \in CompoundFields : index_new_compound(fields)
    \/ \E f \in {FieldNames[i] : i \in 1..Len(FieldNames)} : index_field(f)
    \/ index_named("by_fields")
    \/ \E unique \in BOOLEAN : index_unique(unique)

SpecDeclare == Init /\ [][NextDeclare]_vars

(***************************************************************************)
(* Reads whose cursor reports an error for some of the documents it        *)
(* yields: last.broken holds the positions of these items.                 *)
(***************************************************************************)
CursorCall(op, c, query, options, broken, r) ==
    /\ last = Idle
    /\ last' = [Call(op, Some(c), << >>, query, "", options, FALSE, store, r)
                    EXCEPT !.broken = broken]
    /\ UNCHANGED <<ORMOX, store, pc, ret, seen, indexes, saves, builder, parser, built,
                   declared, simple>>

find_cursor(c, query, options, broken) ==
    CursorCall("find", c, query, options, broken,
               Collection_find_cursor(c, store[c], query, options, FALSE, broken))

all_cursor(c, options, broken) ==
    CursorCall("all", c, << >>, options, broken,
               Collection_all_cursor(c, store[c], options, FALSE, broken))

\* the positions of the cursor at which the backend reports an error
Broken == SUBSET {1, 2}

NextCursor ==
    \/ \E c \in Clients, docs \in Batches, fail \in BOOLEAN :
          \E order \in Orders(Len(docs)) : insert(c, docs, fail, order)
    \/ \E c \in Clients, q \in Queries, o \in FindOptions, broken \in Broken :
          find_cursor(c, q, o, broken)
    \/ \E c \in Clients, o \in FindOptions, broken \in Broken : all_cursor(c, o, broken)
    \/ Drop

SpecCursor == Init /\ [][NextCursor]_vars

(***************************************************************************)
(* The Collection operations called with values that fail their local      *)
(* conversion (a value that is no Query, a document that does not          *)
(* serialize) as well as with values that pass it.                         *)
(***************************************************************************)
QueryLikes == Queries \cup {NotAQuery}

UpdateDocs == {Doc(1, "Bob", 30, None), Doc(2, "Bob", Unserializable, None)}

NextLocal ==
    \/ \E c \in Clients, q \in QueryLikes, fail \in BOOLEAN : find(c, q, None, fail)
    \/ \E c \in Clients, fail \in BOOLEAN : all(c, None, fail)
    \/ \E c \in Clients, d \in InsertDocs, fail \in BOOLEAN : insert(c, << d >>, fail, << 1 >>)
    \/ \E c \in Clients, q \in QueryLikes, d \in UpdateDocs, n \in {One, Many},
          fail \in BOOLEAN : update(c, q, d, n, FALSE, fail)
    \/ \E c \in Clients, q \in QueryLikes, fail \in BOOLEAN : delete_one(c, q, fail)
    \/ \E c \in Clients, q \in QueryLikes, fail \in BOOLEAN : delete_many(c, q, fail)
    \/ \E c \in Clients, index \in Indexes, fail \in BOOLEAN : create_index(c, index, fail)
    \/ \E c \in Clients, n \in IndexNames, fail \in BOOLEAN : drop_index(c, n, fail)
    \/ Drop

SpecLocal == Init /\ [][NextLocal]_vars

(***************************************************************************)
(* Parsing an externally supplied wire filter (TryFrom<bson::Document> for *)
(* Query) and converting the parsed Query back (TryInto<bson::Document>).  *)
(***************************************************************************)
WireScalars == {BInt(18), BLong(65), BString("Ada")}

WireValues == WireScalars \cup {BArray(<< BInt(18), BLong(65) >>)}

Comparisons == {"$gt", "$lt", "$gte", "$lte", "$eq", "$ne", "$in", "$nin"}

\* the operator documents held under a field: one comparison, or a range
Conditions ==
    {op :> v : op \in Comparisons, v \in WireValues}
        \cup {("$gte" :> a) @@ ("$lte" :> b) : a, b \in WireScalars}

FieldFilters ==
    {"age" :> v : v \in WireValues} \cup {"age" :> BDocument(c) : c \in Conditions}

\* the filters placed under the logical operators
InnerFilters ==
    {"age" :> BInt(18)}
        \cup {"age" :> BDocument(op :> v) : op \in {"$gt", "$in"}, v \in WireValues}

LogicalFilters ==
    {k :> BArray(<< BDocument(f), BDocument(g) >>) :
        k \in {"$and", "$or", "$nor"}, f, g \in InnerFilters}
        \cup {k :> v : k \in {"$and", "$or", "$not", "$nor", "$regex"},
                       v \in WireValues \cup {BDocument(f) : f \in InnerFilters}}

WireFilters ==
    {<< >>} \cup FieldFilters \cup LogicalFilters
        \cup {f @@ ("name" :> BString("Ada")) : f \in FieldFilters}
        \cup {"age" :> BDocument("$not" :> BDocument(c)) : c \in Conditions}

\* Query::try_from(value)
try_from(value) ==
    LET r == Query_try_from(value)
    IN  /\ parser.pc = "idle"
        /\ parser' = [pc |-> "parsed", value |-> value, res |-> r.res, q |-> r.q,
                      out |-> << >>]
        /\ UNCHANGED <<ORMOX, store, last, pc, ret, seen, indexes, saves, builder, built,
                   declared, simple>>

\* query.try_into() on the Query that try_from returned
try_into ==
    /\ parser.pc = "parsed"
    /\ parser.res = "Ok"
    /\ parser' = [parser EXCEPT !.pc = "written", !.out = Query_try_into(parser.q).doc]
    /\ UNCHANGED <<ORMOX, store, last, pc, ret, seen, indexes, saves, builder, built,
                   declared, simple>>

NextWire ==
    \/ \E value \in WireFilters : try_from(value)
    \/ try_into

SpecWire == Init /\ [][NextWire]_vars

(***************************************************************************)
(* Client::create_global called by concurrent threads, step by step: the   *)
(* OnceLock is the only shared state, and set and get are atomic.          *)
(***************************************************************************)
\* ORMOX.set(Self::create(driver)): thread t creates the client t and offers it
global_set(t) ==
    LET r == OnceLock_set(ORMOX, t)
    IN  /\ pc[t] = "start"
        /\ ORMOX' = r.cell
        /\ pc' = [pc EXCEPT ![t] = IF r.ok THEN "installed" ELSE "rejected"]
        /\ UNCHANGED <<store, last, ret, seen, indexes, saves, builder, parser, built, declared, simple>>

\* ORMOX.get().unwrap().clone(): the value returned to the caller
global_return(t) ==
    /\ pc[t] = "installed"
    /\ ret' = [ret EXCEPT ![t] = Client_global(ORMOX)]
    /\ pc' = [pc EXCEPT ![t] = "done"]
    /\ UNCHANGED <<ORMOX, store, last, seen, indexes, saves, builder, parser, built, declared, simple>>

\* panic!("Global instance already set!")
global_panic(t) ==
    /\ pc[t] = "rejected"
    /\ pc' = [pc EXCEPT ![t] = "panicked"]
    /\ UNCHANGED <<ORMOX, store, last, ret, seen, indexes, saves, builder, parser, built, declared, simple>>

\* a reader calls Client::global()
global_read ==
    /\ Len(seen) < MaxSeen
    /\ seen' = Append(seen, Client_global(ORMOX))
    /\ UNCHANGED <<ORMOX, store, last, pc, ret, indexes, saves, builder, parser, built, declared, simple>>

NextGlobal ==
    \/ \E t \in Threads : global_set(t)
    \/ \E t \in Threads : global_return(t)
    \/ \E t \in Threads : global_panic(t)
    \/ global_read

SpecGlobal == Init /\ [][NextGlobal]_vars

(***************************************************************************)
(* Properties                                                              *)
(***************************************************************************)
Winners == {t \in Threads : pc[t] \in {"installed", "done"}}

Losers == {t \in Threads : pc[t] \in {"rejected", "panicked"}}

\* C1: in any sequence of create_global calls the first call to reach the
\* cell succeeds and installs the client it created; every later call is
\* rejected and panics without returning a client and without changing the
\* installed client; once a client is installed Client::global() returns it
\* in every later state, also after a rejected call.
C1_FirstInstalledStays ==
    [][ /\ \A t \in Threads :
              /\ (pc[t] = "start" /\ pc'[t] # "start") =>
                     IF ORMOX = None
                     THEN ORMOX' = Some(t) /\ pc'[t] = "installed"
                     ELSE ORMOX' = ORMOX /\ pc'[t] = "rejected"
              /\ (pc[t] = "rejected" /\ pc'[t] # "rejected") =>
                     pc'[t] = "panicked" /\ ret'[t] = None /\ ORMOX' = ORMOX
        /\ (ORMOX # None => ORMOX' = ORMOX)
        /\ (ORMOX # None /\ Len(seen') > Len(seen)) => seen'[Len(seen')] = ORMOX
      ]_vars

\* C1 witness: a second call has panicked and a later read still returns the first client
C1_Witness ==
    \E t, u \in Threads :
        /\ pc[t] = "done" /\ ret[t] = Some(t) /\ pc[u] = "panicked"
        /\ ORMOX = Some(t)
        /\ seen # << >> /\ seen[Len(seen)] = Some(t)

\* C2: when several threads call create_global concurrently, in every
\* interleaving at most one call succeeds and exactly one once any call has
\* reached the cell; the successful call returns the client it created, which
\* is the installed one; every other call is rejected and returns nothing;
\* the values readers get from Client::global() are None and then always the
\* single winner's client.
C2_ExactlyOneWinner ==
    /\ Cardinality(Winners) <= 1
    /\ (\E t \in Threads : pc[t] # "start") => Cardinality(Winners) = 1
    /\ \A t \in Winners : ORMOX = Some(t)
    /\ \A t \in Threads : pc[t] = "done" => ret[t] = Some(t)
    /\ \A t \in Threads : pc[t] # "done" => ret[t] = None
    /\ \A i \in DOMAIN seen : seen[i] # None => \E t \in Winners : seen[i] = Some(t)
    /\ \A i, j \in DOMAIN seen : (i < j /\ seen[i] # None) => seen[j] = seen[i]

\* C2 witness: every thread has called, one won, the others panicked, and a
\* reader saw None and then the winner
C2_Witness ==
    /\ \A t \in Threads : pc[t] \in {"done", "panicked"}
    /\ Cardinality(Losers) = NumThreads - 1
    /\ Len(seen) = 2 /\ seen[1] = None /\ seen[2] # None

(***************************************************************************)
(* Properties of the engine calls.  In a state whose last.op is not        *)
(* "idle", last.before are the stores before the call and store the stores *)
(* right after it.                                                         *)
(***************************************************************************)
Target == Unwrap(last.client)

IdStrings(st) == {st[i]["_id"].v : i \in 1..Len(st)}

\* the positions of st that hold the identifier of document d
At(st, d) == {i \in 1..Len(st) : st[i]["_id"] = BString(UuidToString(d.id))}

\* the wire document b stores the fields of document d under d's identifier
StoredAs(b, d) ==
    /\ DOMAIN b = {"_id", "name", "age"}
    /\ b["_id"] = BString(UuidToString(d.id))
    /\ b["name"] = BString(d.name)
    /\ b["age"] = BInt(d.age)

\* the field-equality query q selects the wire document b
Selected(q, b) == \A key \in DOMAIN q : key.s \in DOMAIN b /\ b[key.s] = q[key].v

SameFields(d, e) == d.id = e.id /\ d.name = e.name /\ d.age = e.age

\* C3: Collection::save and Document::save of a document whose identifier is
\* not in the backing collection create it: after a successful call the
\* collection holds a document with that identifier.
C3_SaveCreates ==
    (last.op \in {"save", "document_save"} /\ last.res = "Ok")
        => At(store[Target], last.in[1]) # {}

C5_FindOneNotFound ==
    (last.op = "find_one" /\ \A i \in 1..Len(store[Target]) : ~Selected(last.query, store[Target][i]))
        => /\ last.out = << >>
           /\ last.res = IF last.fail THEN "Driver" ELSE "NotFound"
           /\ (last.res = "NotFound" => Len(last.msg) = 1)

\* C5 witness: NotFound on a collection that holds documents, none of them selected
C5_Witness ==
    /\ last.op = "find_one" /\ last.res = "NotFound"
    /\ Len(store[Target]) = 2
    /\ last.query # << >>

\* C6: after a successful insert or save of a document d with identifier X,
\* a following get of the string form of X returns a document equal to d.
C6_GetAfterInsertOrSave ==
    (last.op \in {"insert", "save", "document_save"} /\ last.res = "Ok")
        => \A i \in DOMAIN last.in :
              LET g == Collection_get(Target, store[Target], UuidToString(last.in[i].id), FALSE)
              IN  g.res = "Ok" /\ Len(g.out) = 1 /\ SameFields(g.out[1], last.in[i])

\* what a get of the identifier string x on the collection of client c returns now
GetNow(c, x, fail) == Collection_get(c, store[c], x, fail).res

\* C7 (as claimed): after delete_one(q) has succeeded for a query q that
\* matches the stored document with identifier X, a get of X fails with
\* NotFound.
C7_DeleteOneThenGet ==
    (last.op = "delete_one" /\ last.res = "Ok")
        => \A i \in 1..Len(last.before[Target]) :
              Selected(last.query, last.before[Target][i])
                  => GetNow(Target, last.before[Target][i]["_id"].v, FALSE) = "NotFound"

\* C7 (amended): after delete_one(q) has succeeded for a query q whose first
\* match in the collection is the document with identifier X, no stored
\* document has identifier X; whenever no stored document has identifier X
\* a get of X fails, with NotFound unless the backend reports an error; and
\* an identifier that was not stored is stored again only by an insert or a
\* save of a document with that identifier.
C7_DeleteFirstMatchThenGet ==
    /\ (last.op = "delete_one" /\ last.res = "Ok")
          => \A i \in 1..Len(last.before[Target]) :
                (/\ Selected(last.query, last.before[Target][i])
                 /\ \A j \in 1..(i - 1) : ~Selected(last.query, last.before[Target][j]))
                    => /\ last.before[Target][i]["_id"].v \notin IdStrings(store[Target])
                       /\ GetNow(Target, last.before[Target][i]["_id"].v, FALSE) = "NotFound"
    /\ \A c \in Clients : \A u \in Uuids :
          UuidToString(u) \notin IdStrings(store[c])
              => GetNow(c, UuidToString(u), FALSE) = "NotFound" /\ GetNow(c, UuidToString(u), TRUE) = "Driver"
    /\ last.op # "idle"
          => \A c \in Clients : \A x \in IdStrings(store[c]) \ IdStrings(last.before[c]) :
                /\ last.op \in {"insert", "save", "document_save"} /\ last.client = Some(c)
                /\ \E i \in DOMAIN last.in : UuidToString(last.in[i].id) = x

\* C7 witness: a delete_one by name removed the one document of that name and left the other
C7_Witness ==
    /\ last.op = "delete_one" /\ last.res = "Ok"
    /\ \E n \in Names : last.query = NameQuery(n)
    /\ Len(last.before[Target]) = 2 /\ Len(store[Target]) = 1
    /\ ~Selected(last.query, store[Target][1])

DocumentOps == {"document_save", "document_delete"}

\* C8: Document::save and Document::delete return Uninitialized exactly when
\* the document has no attached collection and no global client is set; in
\* that case no driver method is invoked and no stored document changes.
C8_UninitializedIffUnresolved ==
    last.op \in DocumentOps
        => /\ last.res = "Uninitialized" <=> (last.in[1]._collection = None /\ ORMOX = None)
           /\ last.res = "Uninitialized" => (last.calls = << >> /\ store = last.before)

\* C8 witness: Uninitialized returned while both collections hold documents
C8_Witness ==
    /\ last.op \in DocumentOps /\ last.res = "Uninitialized"
    /\ \A c \in Clients : store[c] # << >>

\* C9: Document::save and Document::delete go to the attached collection's
\* driver when the document is attached, whatever the global client is, and
\* to the global client's driver only when the document is unattached: the
\* one driver call is made on that driver and no other driver's documents
\* change.
C9_AttachedBeforeGlobal ==
    (last.op \in DocumentOps /\ (last.in[1]._collection # None \/ ORMOX # None))
        => LET resolved == IF last.in[1]._collection # None
                           THEN Unwrap(last.in[1]._collection) ELSE Unwrap(ORMOX)
           IN  /\ Len(last.calls) = 1
               /\ last.calls[1].driver = resolved
               /\ \A c \in Clients \ {resolved} : store[c] = last.before[c]

\* C9 witness: a document attached to one client deleted its stored copy there
\* while the global client is the other one, which holds the same identifier
C9_Witness ==
    /\ last.op = "document_delete" /\ last.res = "Ok"
    /\ \E c \in Clients :
          /\ last.in[1]._collection = Some(c)
          /\ ORMOX # None /\ ORMOX # Some(c)
          /\ At(last.before[c], last.in[1]) # {} /\ At(store[c], last.in[1]) = {}
          /\ At(store[Unwrap(ORMOX)], last.in[1]) # {}

ReadOps == {"find", "all", "find_one", "find_many", "get"}

\* C10: every document returned by find, all, find_one, find_many or get has
\* the collection it was read through attached, and a Document::save of it
\* calls the driver of that collection.
C10_ResultsAttached ==
    last.op \in ReadOps
        => \A i \in DOMAIN last.out :
              /\ last.out[i]._collection = last.client
              /\ Document_save(last.out[i], ORMOX, store, FALSE).calls
                     = << DriverCall(Target, "update") >>

\* C10 witness: two documents read through a client that is not the global one
C10_Witness ==
    /\ last.op \in ReadOps /\ Len(last.out) = 2
    /\ ORMOX # None /\ ORMOX # last.client

\* C11: after a successful Collection::save or Document::save the document's
\* attached collection is the collection the save went through.
C11_SaveAttaches ==
    (last.op \in {"save", "document_save"} /\ last.res = "Ok")
        => attached_collection(last.in[1]) = last.client

\* the options a find or all call runs with: Find::many() when none are given
OptionsOf(call) == IF call.options = None THEN Find_many ELSE Unwrap(call.options)

\* the documents of st the field-equality query q selects, in storage order
SelectedDocs(q, st) == SelectSeq(st, LAMBDA b : Selected(q, b))

\* C12: a find with cardinality One returns at most one document, the first
\* stored document the query selects if there is one, and returns the same
\* under every setting of sort, offset and limit.
C12_FindOneIgnoresPaging ==
    (last.op = "find" /\ OptionsOf(last).operation = One)
        => /\ Len(last.out) <= 1
           /\ ~last.fail
                 => LET hits == SelectedDocs(last.query, last.before[Target])
                    IN  /\ last.res = "Ok"
                        /\ hits = << >> => last.out = << >>
                        /\ hits # << >> => Len(last.out) = 1 /\ StoredAs(hits[1], last.out[1])
           /\ \A o \in FindOptions :
                 (o # None /\ Unwrap(o).operation = One)
                     => Collection_find(Target, last.before[Target], last.query, o, last.fail).out
                            = last.out

\* C12 witness: a One find with sort, offset and limit set returned the first of two matches
C12_Witness ==
    /\ last.op = "find" /\ last.res = "Ok"
    /\ last.options = Some(Find(One, Some(1), Some(1), Some(Sorting_desc("name"))))
    /\ Len(SelectedDocs(last.query, last.before[Target])) = 2
    /\ last.before[Target][1]["name"] # last.before[Target][2]["name"]
    /\ Len(last.out) = 1

\* s is in the order the sort asks for, on the sort field
Ordered(s, sort) ==
    \A i, j \in 1..Len(s) :
        i < j => IF sort.dir = "Ascending"
                 THEN SortRank(s[i], sort.field) <= SortRank(s[j], sort.field)
                 ELSE SortRank(s[i], sort.field) >= SortRank(s[j], sort.field)

Permutation(s, t) == Len(s) = Len(t) /\ \A d \in {s[i] : i \in 1..Len(s)} :
    Cardinality({i \in 1..Len(s) : s[i] = d}) = Cardinality({i \in 1..Len(t) : t[i] = d})

C14_AllIsFindAll ==
    last.op = "all"
        => LET f == Collection_find(Target, last.before[Target], Query_build(Query_new),
                                    last.options, last.fail)
           IN  last.res = f.res /\ last.out = f.out

\* C15: insert returns one identifier per input document, the i-th being the
\* identifier of the i-th input document.
C15_InsertIdsInOrder ==
    (last.op = "insert" /\ last.res = "Ok")
        => /\ Len(last.ids) = Len(last.in)
           /\ \A i \in 1..Len(last.in) : last.ids[i] = Document_id(last.in[i])

\* C16: when a document of the batch does not serialize, Collection::insert
\* returns the Serialization error, invokes no driver method and stores no
\* document of the batch.
C16_InsertFailFast ==
    (last.op = "insert" /\ \E i \in 1..Len(last.in) : ~to_document_ok(last.in[i]))
        => /\ last.res = "Serialization"
           /\ last.calls = << >>
           /\ last.ids = << >>
           /\ store = last.before

\* C16 witness: the second document of a batch failed and the first, whose
\* identifier was free, was not stored
C16_Witness ==
    /\ last.op = "insert" /\ last.res = "Serialization"
    /\ Len(last.in) = 2
    /\ to_document_ok(last.in[1]) /\ ~to_document_ok(last.in[2])
    /\ At(store[Target], last.in[1]) = {}
    /\ store[Target] # << >>

IndexOps == {"create_index", "drop_index"}

\* C17: Collection::create_index and Collection::drop_index on a client whose
\* driver does not manage indexes return the Unimplemented error (never
\* success, never a panic) and change neither the stored documents nor the
\* indexes of any client.
C17_IndexUnimplemented ==
    [][(last'.op \in IndexOps /\ last'.client \cap IndexDrivers = {})
          => /\ last'.res = "Unimplemented"
             /\ store' = store
             /\ indexes' = indexes]_vars

\* C17 witness: Unimplemented returned by a client that holds documents, next to
\* a client whose driver did create an index
C17_Witness ==
    /\ last.op \in IndexOps /\ last.res = "Unimplemented"
    /\ store[Target] # << >>
    /\ \E c \in IndexDrivers : indexes[c] # {}

\* C18: when two concurrent saves of the same identifier with different
\* field values have both completed, the collection holds exactly one
\* document with that identifier and its fields are those of one of the two
\* saved versions.
C18_ConcurrentSavesLastWriteWins ==
    \A t, u \in Savers :
        (/\ t # u
         /\ saves[t].pc = "done" /\ saves[t].res = "Ok"
         /\ saves[u].pc = "done" /\ saves[u].res = "Ok"
         /\ saves[t].client = saves[u].client
         /\ saves[t].doc[1].id = saves[u].doc[1].id
         /\ ~SameFields(saves[t].doc[1], saves[u].doc[1]))
            => LET st == store[Unwrap(saves[t].client)]
                   at == At(st, saves[t].doc[1])
               IN  /\ Cardinality(at) = 1
                   /\ \A i \in at : \/ StoredAs(st[i], saves[t].doc[1])
                                    \/ StoredAs(st[i], saves[u].doc[1])

(***************************************************************************)
(* Properties of the Query builder.                                        *)
(***************************************************************************)
\* the key a builder call writes
WrittenKey(w) ==
    CASE w.m \in {"field", "subquery"} -> KeyString(w.a)
      [] w.m = "operation" -> KeyOperator(w.a)
      [] w.m = "greater_than" -> Key("GreaterThan")
      [] w.m = "greater_than_equal" -> Key("GreaterThanEqual")
      [] w.m = "less_than" -> Key("LessThan")
      [] w.m = "less_than_equal" -> Key("LessThanEqual")
      [] w.m = "equals" -> Key("Equals")
      [] w.m = "not_equals" -> Key("NotEquals")
      [] w.m = "in_array" -> Key("In")
      [] w.m = "not_in_array" -> Key("NotIn")
      [] w.m = "not" -> Key("Not")
      [] w.m = "and" -> Key("And")
      [] w.m = "or" -> Key("Or")

\* the last call of the log that writes key k
LastWrite(log, k) ==
    log[CHOOSE i \in 1..Len(log) :
            /\ WrittenKey(log[i]) = k
            /\ \A j \in (i + 1)..Len(log) : WrittenKey(log[j]) # k]

\* the Query the calls of the log build, from Query::new()
RECURSIVE Replay(_)
Replay(log) ==
    IF log = << >> THEN Query_new
    ELSE Apply(Replay(SubSeq(log, 1, Len(log) - 1)), log[Len(log)])

\* the log with its calls i and i+1 exchanged
Swap(log, i) ==
    [j \in 1..Len(log) |-> IF j = i THEN log[i + 1] ELSE IF j = i + 1 THEN log[i] ELSE log[j]]

\* C19: after any sequence of builder calls the Query holds, for each key
\* written, the value of the last call that wrote it (an earlier value of
\* the key is replaced, the values of the other keys stay) and no other key;
\* exchanging two consecutive calls that write distinct keys builds the same
\* Query.
C19_LastWriteWinsPerKey ==
    /\ DOMAIN builder.q = {WrittenKey(builder.log[i]) : i \in 1..Len(builder.log)}
    /\ \A k \in DOMAIN builder.q :
          builder.q[k] = Apply(Query_new, LastWrite(builder.log, k))[k]
    /\ \A i \in 1..(Len(builder.log) - 1) :
          WrittenKey(builder.log[i]) # WrittenKey(builder.log[i + 1])
              => Replay(Swap(builder.log, i)) = builder.q

\* C19 witness: a key written twice with different values, another key written in between
C19_Witness ==
    /\ Len(builder.log) = 3
    /\ WrittenKey(builder.log[1]) = WrittenKey(builder.log[3])
    /\ WrittenKey(builder.log[2]) # WrittenKey(builder.log[1])
    /\ Apply(Query_new, builder.log[1])[WrittenKey(builder.log[1])]
          # builder.q[WrittenKey(builder.log[1])]

\* C20: after an or (an and) on a Query that already holds a value under the
\* or (and) key, the key holds the cases of that last call and nothing else.
C20_OrAndReplace ==
    (builder.log # << >> /\ builder.log[Len(builder.log)].m \in {"or", "and"})
        => LET w == builder.log[Len(builder.log)]
               k == IF w.m = "or" THEN Key("Or") ELSE Key("And")
           IN  /\ k \in DOMAIN builder.q
               /\ builder.q[k].q = "Casematch"
               /\ builder.q[k].v = w.b

\* C20 witness: an or with one case called after an or with another case
C20_Witness ==
    /\ Len(builder.log) >= 2
    /\ builder.log[Len(builder.log)].m = "or"
    /\ Len(builder.log[Len(builder.log)].b) = 1
    /\ \E i \in 1..(Len(builder.log) - 1) :
          /\ builder.log[i].m = "or"
          /\ Len(builder.log[i].b) = 1
          /\ builder.log[i].b # builder.log[Len(builder.log)].b
    /\ Len(builder.q[Key("Or")].v) = 1

(***************************************************************************)
(* Properties of the Query <-> wire translation.                           *)
(***************************************************************************)
\* C22: the wire document of the Query built by any sequence of builder
\* calls parses, and parses back into a Query with the same keys (of the
\* same kind) and the same values.
C22_BuiltQueryRoundTrip ==
    LET wire == Query_try_into(builder.q)
        back == Query_try_from(wire.doc)
    IN  /\ wire.ok
        /\ back.res = "Ok"
        /\ DOMAIN back.q = DOMAIN builder.q
        /\ \A key \in DOMAIN builder.q : back.q[key] = builder.q[key]

\* C24: in the wire document of a built Query every operator key is written
\* under a name that starts with the sigil, the built-in ones under their
\* canonical token; a Casematch value is written as the array of the wire
\* documents of its Queries, a Mapping value as the wire document of its Query.
C24_OperatorKeysOnTheWire ==
    LET wire == Query_try_into(builder.q)
    IN  /\ wire.ok
        /\ \A key \in DOMAIN builder.q :
              LET name == QueryKey_to_string(key)
                  value == builder.q[key]
              IN  /\ name \in DOMAIN wire.doc
                  /\ key.k # "String" => starts_with_sigil(name)
                  /\ key.k \notin {"String", "Operator"} =>
                        /\ name \in OperatorTokens
                        /\ \A other \in DOMAIN builder.q :
                              QueryKey_to_string(other) = name => other = key
                  /\ value.q = "Casematch" =>
                        wire.doc[name] =
                            BArray([i \in DOMAIN value.v |->
                                        BDocument(Query_try_into(value.v[i]).doc)])
                  /\ value.q = "Mapping" =>
                        wire.doc[name] = BDocument(Query_try_into(value.v).doc)

\* two wire values that differ at most in the width of their integers
RECURSIVE SameWire(_, _)
SameWire(a, b) ==
    CASE a.t \in {"Int", "Long"} -> b.t \in {"Int", "Long"} /\ a.v = b.v
      [] a.t = "Array" ->
            /\ b.t = "Array"
            /\ Len(a.v) = Len(b.v)
            /\ \A i \in DOMAIN a.v : SameWire(a.v[i], b.v[i])
      [] a.t = "Document" ->
            /\ b.t = "Document"
            /\ DOMAIN a.v = DOMAIN b.v
            /\ \A n \in DOMAIN a.v : SameWire(a.v[n], b.v[n])
      [] OTHER -> b.t = a.t /\ b.v = a.v

\* every entry of the wire document value has its key in the Query q, nested
\* documents included
RECURSIVE Kept(_, _)
Kept(value, q) ==
    /\ {QueryKey_to_string(key) : key \in DOMAIN q} = DOMAIN value
    /\ Cardinality(DOMAIN q) = Cardinality(DOMAIN value)
    /\ \A key \in DOMAIN q :
          LET held == value[QueryKey_to_string(key)]
          IN  /\ q[key].q = "Mapping" <=> held.t = "Document"
              /\ q[key].q = "Mapping" => Kept(held.v, q[key].v)

RECURSIVE Malformed(_)
Malformed(value) ==
    \E key \in DOMAIN value :
        LET held == value[key]
            queries == key \in {"$and", "$or"}
                           \/ (starts_with_sigil(key) /\ key \notin OperatorTokens)
        IN  \/ key \in {"$gt", "$lt", "$gte", "$lte"} /\ held.t \notin {"Int", "Long"}
            \/ key \in {"$in", "$nin"} /\ held.t # "Array"
            \/ key = "$not" /\ held.t # "Document"
            \/ key \in {"$and", "$or"}
                  /\ (held.t # "Array" \/ \E i \in DOMAIN held.v : held.v[i].t # "Document")
            \/ key \notin {"$eq", "$ne", "$in", "$nin"}
                  /\ held.t = "Document" /\ Malformed(held.v)
            \/ queries /\ held.t = "Array"
                  /\ \E i \in DOMAIN held.v :
                        held.v[i].t = "Document" /\ Malformed(held.v[i].v)

\* C25: parsing a wire filter that holds, at any depth, a built-in operator
\* with a value of the wrong shape fails with a Deserialization error and
\* returns no Query.
C25_MalformedRejected ==
    (parser.pc # "idle" /\ Malformed(parser.value))
        => parser.res = "Deserialization" /\ parser.q = Query_new

(***************************************************************************)
(* Properties of Query::build.                                             *)
(***************************************************************************)
\* C21: the Query that build() returned is the Query its builder held when
\* build() was called, nested sub-Queries included, whatever calls were made
\* on the builder or on a Query passed into it since.
C21_BuildIsSnapshot ==
    built.q # None =>
        Unwrap(built.q) = Replay(SubSeq(builder.log, 1, built.at))

\* C21 witness: a Query built with a nested sub-Query; since build() the
\* builder was called again and so was the Query that had been passed into it
C21_Witness ==
    /\ built.q # None
    /\ built.at < Len(builder.log)
    /\ built.childAt < built.calls
    /\ Unwrap(built.q) # builder.q
    /\ \E key \in DOMAIN Unwrap(built.q) :
          /\ Unwrap(built.q)[key].q = "Mapping"
          /\ Unwrap(built.q)[key].v # Query_new
          /\ Unwrap(built.q)[key].v # built.child

(***************************************************************************)
(* Properties of SimpleQuery.                                              *)
(***************************************************************************)
\* the operator key of a SimpleQuery method
OperatorOf(m) ==
    CASE m = "equals" -> Key("Equals")
      [] m = "not_equals" -> Key("NotEquals")
      [] m = "less_than" -> Key("LessThan")
      [] m = "less_than_equal" -> Key("LessThanEqual")
      [] m = "greater_than" -> Key("GreaterThan")
      [] m = "greater_than_equal" -> Key("GreaterThanEqual")
      [] m = "in_array" -> Key("In")
      [] m = "not_in_array" -> Key("NotIn")
      [] m = "not" -> Key("Not")

\* the last call of the log made on field k
LastOn(log, k) ==
    log[CHOOSE i \in 1..Len(log) :
            /\ log[i].a = k
            /\ \A j \in (i + 1)..Len(log) : log[j].a # k]

\* C26: every field a SimpleQuery method was called on holds a nested Query
\* of exactly one key, the operator key of the last method called on the
\* field, and SimpleQuery -> Query -> SimpleQuery returns the same value.
C26_SimpleQueryNestedSingleOperator ==
    LET q == SimpleQuery_q(simple.s)
    IN  /\ DOMAIN q = {KeyString(simple.log[i].a) : i \in 1..Len(simple.log)}
        /\ \A key \in DOMAIN q :
              /\ q[key].q = "Mapping"
              /\ DOMAIN q[key].v = {OperatorOf(LastOn(simple.log, key.s).m)}
        /\ simple.back # None => Unwrap(simple.back) = simple.s

(***************************************************************************)
(* Properties of Index declarations.                                       *)
(***************************************************************************)
\* the elements of the set S of field names as a strictly ascending list
Ascending(S) ==
    CHOOSE s \in [1..Cardinality(S) -> S] :
        \A i, j \in 1..Cardinality(S) : i < j => FieldRank(s[i]) < FieldRank(s[j])

\* C27: the fields of an Index made by Index::new or Index::new_compound and
\* any field() calls are strictly ascending, and are the ascending list of
\* the set of field names it was declared with: their order and their
\* repetitions in the declaration make no difference.
C27_IndexFieldsSorted ==
    declared.index # None =>
        LET fields == Unwrap(declared.index).fields
        IN  /\ \A i, j \in 1..Len(fields) :
                  i < j => FieldRank(fields[i]) < FieldRank(fields[j])
            /\ fields = Ascending({declared.log[i] : i \in 1..Len(declared.log)})

\* C27 witness: new_compound(["b", "a", "a"]) followed by field("c")
C27_Witness ==
    /\ declared.index # None
    /\ declared.log = << "b", "a", "a", "c" >>
    /\ Unwrap(declared.index).fields = << "a", "b", "c" >>

(***************************************************************************)
(* Further properties of the engine calls.                                 *)
(***************************************************************************)
\* C28: Document::delete leaves every store as it was, except that the store
\* of the collection the document resolves to may have lost one document,
\* which held the identifier of the calling document.
C28_DocumentDeleteByIdentity ==
    last.op = "document_delete" =>
        \A c \in Clients :
            \/ store[c] = last.before[c]
            \/ /\ last.client = Some(c)
               /\ \E i \in At(last.before[c], last.in[1]) :
                     store[c] = RemoveAt(last.before[c], i)

\* C28 witness: a document deleted through a calling document of the same
\* identifier and another name, a document of the same name as the calling
\* one and another identifier left in the store
C28_Witness ==
    /\ last.op = "document_delete"
    /\ last.res = "Ok"
    /\ Len(last.before[Target]) = 2
    /\ Len(store[Target]) = 1
    /\ \E i \in At(last.before[Target], last.in[1]) :
          last.before[Target][i]["name"] # BString(last.in[1].name)
    /\ store[Target][1]["name"] = BString(last.in[1].name)
    /\ store[Target][1]["_id"] # BString(UuidToString(last.in[1].id))

\* the number of items the cursor of the read recorded in last yields
Yielded ==
    LET filter == IF last.op = "find" THEN Query_try_into(last.query).doc ELSE << >>
        options == OptionsOf(last)
    IN  Len(backend_find(last.before[Target], filter, options.sort, options.offset,
                         options.limit))

\* C29: a find (with cardinality Many) or an all during which the backend
\* reports an error for a document its cursor yields returns a Driver error.
C29_ReadErrorsSurface ==
    ( /\ last.op \in {"find", "all"}
      /\ last.op = "all" \/ OptionsOf(last).operation = Many
      /\ \E i \in last.broken : i <= Yielded )
        => last.res = "Driver"

\* the Collection operations that call the driver directly
DirectOps ==
    {"find", "all", "insert", "update", "delete_one", "delete_many", "create_index",
     "drop_index"}

\* the driver method a Collection operation calls
DriverMethod(op) == IF op \in {"delete_one", "delete_many"} THEN "delete" ELSE op

\* the query handed to the call recorded in last is no Query
BadQuery ==
    /\ last.op \in {"find", "update", "delete_one", "delete_many"}
    /\ last.query = NotAQuery

\* a document handed to the call recorded in last does not serialize
BadDocument ==
    /\ last.op \in {"insert", "update"}
    /\ \E i \in 1..Len(last.in) : last.in[i].age = Unserializable

\* C30: find, all, insert, update, delete, create_index and drop_index call
\* the driver of their client at most once: not at all when the query or a
\* document fails its local conversion (the call then returns Compatibility,
\* respectively Serialization / Deserialization, and the stores are as they
\* were), exactly once otherwise; an error of the driver is the call's result.
C30_DriverCalledOnce ==
    last.op \in DirectOps =>
        /\ Len(last.calls) <= 1
        /\ BadQuery => last.res = "Compatibility"
        /\ (BadDocument /\ ~BadQuery) =>
              last.res = IF last.op = "insert" THEN "Serialization" ELSE "Deserialization"
        /\ (BadQuery \/ BadDocument) => last.calls = << >> /\ store = last.before
        /\ ~(BadQuery \/ BadDocument) =>
              /\ last.calls = << DriverCall(Target, DriverMethod(last.op)) >>
              /\ last.fail =>
                    last.res = IF last.op \in IndexOps /\ Target \notin IndexDrivers
                               THEN "Unimplemented" ELSE "Driver"

\* C30 witness: an update with a value that is no Query on a collection that
\* holds a document: Compatibility, no driver call
C30_Witness ==
    /\ last.op = "update"
    /\ last.query = NotAQuery
    /\ last.res = "Compatibility"
    /\ last.calls = << >>
    /\ store[Target] # << >>

====
